---- MODULE Spec2Model ----
(***************************************************************************)
(* VZFS: a hierarchical filesystem kept in three IndexedDB object stores   *)
(* (entity, content, lock), the promise library that mutates them          *)
(* (src/src/adapters/storage/idb.js, path-keyed part) and the operator     *)
(* state machine that wraps each command in resolve -> lock -> overlap     *)
(* check -> tree op -> release (src/src/subsystems/storageHierarchy.js).   *)
(*                                                                         *)
(* A path is a sequence of one-character strings, so that the string       *)
(* operations of the code (startsWith, concatenation, key ranges) keep     *)
(* their character-level meaning.  Every action is one store transaction   *)
(* or one state-machine transition; actors interleave between them.        *)
(*                                                                         *)
(* The operator calls the library by the names of its id-keyed             *)
(* predecessor (getEntityByPath, removeLockById, e.id ...); the model      *)
(* binds each such call to the path-keyed function of idb.js and reads     *)
(* `x.id` as the primary key of x, which is `x.path`.                      *)
(***************************************************************************)
EXTENDS Integers, Sequences, FiniteSets, TLC

\* ------------------------------------------------------------------ bounds
MaxTime == 1          \* steps the clock (Date.now()) takes
MaxCmds == 2          \* command events accepted, over all actors
MaxPrunes == 1        \* pruneExpiredLocks events handled, over all actors
MaxCalls == 2         \* library functions called by the direct caller

Actors == {"A", "B"}  \* operator instances sharing one database

\* the lifetime of a lock whose command event carries no durationMs
DefaultDurationMs == 5000

\* ------------------------------------------------------------------- paths
NoPath == <<>>        \* null / undefined / a normalize() that threw
Root == <<"/">>
Slash == <<"/">>

StartsWith(s, p) == Len(p) <= Len(s) /\ SubSeq(s, 1, Len(p)) = p

PathChars == {"/", ".", "a", "b", "f", "g"}

NameChars == PathChars \ {"/"}

\* /^[a-zA-Z0-9_.-]+$/.test(name)
ValidName(name) == name # <<>> /\ \A i \in 1..Len(name) : name[i] \in NameChars

RECURSIVE SplitAt(_, _, _, _)
SplitAt(s, i, cur, acc) ==
  IF i > Len(s) THEN Append(acc, cur)
  ELSE IF s[i] = "/" THEN SplitAt(s, i + 1, <<>>, Append(acc, cur))
  ELSE SplitAt(s, i + 1, Append(cur, s[i]), acc)

\* String.prototype.split("/")
Split(s) == SplitAt(s, 1, <<>>, <<>>)

RECURSIVE JoinAbs(_)
JoinAbs(segs) ==
  IF segs = <<>> THEN <<>> ELSE Slash \o Head(segs) \o JoinAbs(Tail(segs))

\* the non-empty segments of an absolute path
AbsPathToPieces(path) == SelectSeq(Split(path), LAMBDA sg : sg # <<>>)

RECURSIVE FoldSegs(_, _)
FoldSegs(segs, acc) ==
  IF segs = <<>> THEN [ok |-> TRUE, pieces |-> acc]
  ELSE LET sg == Head(segs) IN
    IF sg = <<>> \/ sg = <<".">> THEN FoldSegs(Tail(segs), acc)
    ELSE IF sg = <<".", ".">>
      THEN IF acc = <<>> THEN [ok |-> FALSE, pieces |-> <<>>]
           ELSE FoldSegs(Tail(segs), SubSeq(acc, 1, Len(acc) - 1))
    ELSE FoldSegs(Tail(segs), Append(acc, sg))

\* a normalize that composes every input with cwdPieces, absolute or not
NormalizeRelative(input, cwdPieces) ==
  IF input = <<>> \/ input = <<"/", ".", ".">> THEN NoPath
  ELSE IF \E i \in 1..Len(input) : input[i] \notin PathChars THEN NoPath
  ELSE LET segs == Split(input)
           last == segs[Len(segs)]
           dirMark == last = <<>> \/ last = <<".">> \/ last = <<".", ".">>
           f == FoldSegs(segs, cwdPieces)
       IN IF ~f.ok THEN NoPath
          ELSE IF f.pieces = <<>> THEN Root
          ELSE JoinAbs(f.pieces) \o (IF dirMark THEN Slash ELSE <<>>)

\* normalize(input, cwdPieces): the canonical absolute path, NoPath when it
\* throws InvalidPath
Normalize(input, cwdPieces) ==
  IF input = <<>> \/ input = <<"/", ".", ".">> THEN NoPath
  ELSE IF \E i \in 1..Len(input) : input[i] \notin PathChars THEN NoPath
  ELSE LET segs == Split(input)
           last == segs[Len(segs)]
           dirMark == last = <<>> \/ last = <<".">> \/ last = <<".", ".">>
           start == IF Head(segs) = <<>> THEN <<>> ELSE cwdPieces
           f == FoldSegs(segs, start)
       IN IF ~f.ok THEN NoPath
          ELSE IF f.pieces = <<>> THEN Root
          ELSE JoinAbs(f.pieces) \o (IF dirMark THEN Slash ELSE <<>>)

\* -------------------------------------------------------------- the stores
NoEntity ==
  [path |-> NoPath, name |-> <<>>, isLeaf |-> FALSE, parentPath |-> NoPath,
   createdAt |-> 0, updatedAt |-> 0]

RootEntity ==
  [path |-> Root, name |-> <<>>, isLeaf |-> FALSE, parentPath |-> NoPath,
   createdAt |-> 0, updatedAt |-> 0]

NoBody == "null"

VARIABLES entity, content, lock, now, proc, pruner, ncmd, nprune, twin

vars == <<entity, content, lock, now, proc, pruner, ncmd, nprune, twin>>

\* objectStore("entity").get(n)
EntityGet(store, n) ==
  IF \E r \in store : r.path = n THEN CHOOSE r \in store : r.path = n
  ELSE NoEntity

\* does objectStore("entity").add(rec) raise ConstraintError: the primary key
\* path, or the unique index (parentPath, name), is taken
EntityConstraint(store, rec) ==
  \E r \in store :
    \/ r.path = rec.path
    \/ r.parentPath # NoPath /\ r.parentPath = rec.parentPath /\ r.name = rec.name

EntityDelete(store, n) == {r \in store : r.path # n}

\* index("parentPath") count / getAllKeys of IDBKeyRange.only(p)
ChildKeys(store, p) == {r.path : r \in {x \in store : x.parentPath = p}}

\* IDBKeyRange.bound(p, p + U+FFFF, true, false) on the primary key
StrictlyUnder(store, p) == {r \in store : StartsWith(r.path, p) /\ r.path # p}

ContentGet(store, n) ==
  IF \E c \in store : c.leafPath = n
  THEN (CHOOSE c \in store : c.leafPath = n).content
  ELSE NoBody

ContentHas(store, n) == \E c \in store : c.leafPath = n

ContentDelete(store, n) == {c \in store : c.leafPath # n}

\* objectStore("content").put({content, leafPath})
ContentPut(store, n, body) ==
  ContentDelete(store, n) \cup {[leafPath |-> n, content |-> body]}

\* --------------------------------------------------------- the lock manager
\* the lock store without its uniqueness constraint
LockHasNever(store, n) == FALSE

\* is the key n taken in the lock store (add() raises ConstraintError)
LockHas(store, n) == \E l \in store : l.pathPrefix = n

\* objectStore("lock").delete(key)
LockDelete(store, n) == {l \in store : l.pathPrefix # n}

\* index("expiry").getAll(IDBKeyRange.lowerBound(Date.now()))
UnexpiredLocks(store, t) == {l \in store : l.expiry >= t}

\* upperBound() with the bound left out of the range
ExpiredKeysOpen(store, t) == {l.pathPrefix : l \in {x \in store : x.expiry < t}}

\* index("expiry").getAllKeys(IDBKeyRange.upperBound(Date.now()))
ExpiredKeys(store, t) == {l.pathPrefix : l \in {x \in store : x.expiry <= t}}

\* the prefix test of the overlap check with its operands swapped
InnerReduceSwapped(paths, pathPrefix, acc) ==
  IF paths = <<>> THEN 0
  ELSE IF StartsWith(pathPrefix, paths[Len(paths)]) THEN acc + 1 ELSE acc

\* paths.reduce((_, c) => c.startsWith(cur.pathPrefix) ? acc + 1 : acc, 0):
\* the accumulator parameter is ignored, so the value is that of the last path
InnerReduce(paths, pathPrefix, acc) ==
  IF paths = <<>> THEN 0
  ELSE IF StartsWith(paths[Len(paths)], pathPrefix) THEN acc + 1 ELSE acc

RECURSIVE SetToSeq(_)
SetToSeq(S) ==
  IF S = {} THEN <<>> ELSE LET x == CHOOSE y \in S : TRUE IN <<x>> \o SetToSeq(S \ {x})

RECURSIVE OuterReduce(_, _, _)
OuterReduce(locks, paths, acc) ==
  IF locks = <<>> THEN acc
  ELSE OuterReduce(Tail(locks), paths,
         IF InnerReduce(paths, Head(locks).pathPrefix, acc) # 0 THEN acc + 1 ELSE acc)

\* the number `conflicts` computed by rejectIfConflictingLockPathPrefixes from
\* the paths of the reference entities and the rows the expiry index returned
Conflicts(paths, rows) ==
  LET others == {l \in rows : \A i \in 1..Len(paths) : paths[i] # l.pathPrefix}
  IN OuterReduce(SetToSeq(others), paths, 0)

\* ------------------------------------------------------------- actor state
\* twin holds the other one of two runs that are compared; no such run here
NoTwin == [run |-> 0, calls |-> <<>>, next |-> 0, entity |-> {}, content |-> {}]

\* the database an actor has mounted, and the fsName of an actor that has none
FsName == "fs"
NoFsName == "null"

IdleProc ==
  [st |-> "awaitingCommand", fsName |-> FsName,
   cmd |-> "none", via |-> "none", cwd |-> Root,
   path |-> NoPath, name |-> <<>>, body |-> NoBody, dur |-> 0,
   e |-> NoEntity, lockId |-> NoPath, out |-> "none", arg |-> NoPath,
   refs |-> <<>>, paths |-> <<>>, checked |-> FALSE, err |-> "none",
   file |-> NoEntity, parent |-> NoEntity, newPath |-> NoPath,
   cont |-> NoBody, inner |-> "none", reply |-> "none"]

\* the lockTablePruner region at rest
IdlePruner == [st |-> "idle", keys |-> {}, at |-> 0]

CwdPieces(a) == AbsPathToPieces(proc[a].cwd)

\* the first res()/rej() settles a promise, later ones are ignored
Res(o) == IF o = "pending" THEN "res" ELSE o

Rej(o) == IF o = "pending" THEN "rej" ELSE o

SetProc(a, r) == proc' = [proc EXCEPT ![a] = r]

\* where control goes when the tree op of a command has settled: the finally
\* block of the operator, or back to the caller of the library function
AfterOp(p) == IF p.via = "operator" THEN "finally" ELSE "awaitingCommand"

\* what is still live of a command once its try block is left: the locals of
\* the block are dropped
Leave(p) ==
  [IdleProc EXCEPT !.cmd = p.cmd, !.via = p.via, !.cwd = p.cwd,
                   !.lockId = p.lockId, !.out = p.out, !.err = p.err]

\* a tree op that settled with outcome o ("res" / "rej"): `res(await op())`
\* or the catch block settles the promise of the command
Finish(p, o) ==
  [Leave(p) EXCEPT !.out = IF o = "res" THEN Res(@) ELSE Rej(@),
                   !.st = AfterOp(p)]

\* a catch block after which the command goes on to its tree op
FailFallsThrough(p, e) ==
  [p EXCEPT !.out = Rej(@), !.err = IF p.out = "pending" THEN e ELSE @,
            !.arg = p.e.path,
            !.st = IF p.cmd = "renameFileByPath" THEN "renameFile.getEntity"
                   ELSE IF p.cmd = "deleteFileByPath" THEN "deleteLeafEntity.getEntity"
                   ELSE IF p.cmd = "createFile" THEN "createFile.addFileEntity"
                   ELSE "finally"]

\* an exception inside the first try block of a command: rej(e), then
\* createFile falls through to its second try block and every other command
\* goes to its finally block
Fail(p, e) ==
  [Leave(p) EXCEPT !.out = Rej(@), !.err = IF p.out = "pending" THEN e ELSE @,
     !.st = IF p.cmd = "createFile" THEN "createFile.addFileEntity" ELSE "finally"]

\* how a library function called from inside another one ends: renameFile and
\* updateFile wrap their inner calls in Promise.allSettled, which resolves
\* whatever the inner outcome
FinishInner(p, o) == IF p.inner = "none" THEN Finish(p, o) ELSE Finish(p, "res")

\* ---------------------------------------------------------------- inputs
DirA == <<"/", "a", "/">>
FileF == <<"/", "f">>

Cmd(c, p, n, b) == [cmd |-> c, path |-> p, name |-> n, body |-> b]

\* the command events awaitingCommand routes to a command state; the data of
\* each is a small fixed choice, without durationMs
RoutedInputs ==
  { Cmd("createFile", Root, <<"g">>, "x"),
    Cmd("readFileByPath", FileF, <<>>, NoBody),
    Cmd("renameFileByPath", FileF, <<"g">>, NoBody) }

\* a command state that exists in the machine and that the protocol lists,
\* but that awaitingCommand does not route to yet ("TODO - add rest of these")
ProtocolInputs == { Cmd("deleteFileByPath", FileF, <<>>, NoBody) }

\* the command events a host sends
CommandInputs == RoutedInputs \cup ProtocolInputs

Call(o, p, q, n, b) == [op |-> o, path |-> p, other |-> q, name |-> n, body |-> b]

\* the calls a program linking the library makes: (op, path, second path,
\* name, content)
LibraryInputs ==
  { Call("addFileEntity", Root, NoPath, <<"g">>, "y"),
    Call("addFileEntity", FileF, NoPath, <<"g">>, "y"),
    Call("addFileEntity", Root, NoPath, <<".", "/", "g">>, "y"),
    Call("addDirectoryEntity", DirA, NoPath, <<"b">>, NoBody),
    Call("addDirectoryEntity", FileF, NoPath, <<"b">>, NoBody),
    Call("addDirectoryEntity", Root, NoPath, <<".", "/", "b">>, NoBody),
    Call("renameFile", FileF, NoPath, <<"g">>, NoBody),
    Call("renameFile", FileF, NoPath, <<"a", "/">>, NoBody),
    Call("renameFile", DirA, NoPath, <<"g">>, NoBody),
    Call("renameFile", Root, NoPath, <<"g">>, NoBody),
    Call("deleteLeafEntity", FileF, NoPath, <<>>, NoBody),
    Call("deleteLeafEntity", DirA, NoPath, <<>>, NoBody),
    Call("deleteDirectoryIfEmpty", DirA, NoPath, <<>>, NoBody),
    Call("deleteDirectoryIfEmpty", Root, NoPath, <<>>, NoBody),
    Call("emptyDirectory", Root, NoPath, <<>>, NoBody),
    Call("emptyDirectory", DirA, NoPath, <<>>, NoBody),
    Call("updateFile", FileF, NoPath, <<>>, "y"),
    Call("updateFileTimestamp", FileF, NoPath, <<>>, NoBody),
    Call("updateFileTimestamp", DirA, NoPath, <<>>, NoBody),
    Call("reparentLeaf", FileF, DirA, <<>>, NoBody),
    Call("reparentLeaf", FileF, Root, <<>>, NoBody),
    Call("reparentLeaf", Root, Root, <<>>, NoBody),
    Call("transplantAncestors", DirA, Root, <<>>, NoBody),
    Call("transplantAncestors", Root, DirA, <<>>, NoBody),
    Call("transplantAncestors", DirA, DirA, <<>>, NoBody) }

\* the caller of the library in the specification of the tree ops
Caller == "A"

\* the filesystem found at mount time: the root, one directory, one file
SeedEntity ==
  { RootEntity,
    [path |-> DirA, name |-> <<"a">>, isLeaf |-> FALSE, parentPath |-> Root,
     createdAt |-> 0, updatedAt |-> 0],
    [path |-> FileF, name |-> <<"f">>, isLeaf |-> TRUE, parentPath |-> Root,
     createdAt |-> 0, updatedAt |-> 0] }

SeedContent == {[leafPath |-> FileF, content |-> "x"]}

Init ==
  /\ entity = SeedEntity
  /\ content = SeedContent
  /\ lock = {}
  /\ now = 0
  /\ proc = [a \in Actors |-> IdleProc]
  /\ pruner = [a \in Actors |-> IdlePruner]
  /\ ncmd = 0
  /\ nprune = 0
  /\ twin = NoTwin

\* ------------------------------------------------------------ the operator
\* the state entered when lockPath and the overlap check have succeeded
OpEntry(p) ==
  CASE p.cmd = "createFile" -> "createFile.addFileEntity"
    [] p.cmd = "readFileByPath" -> IF p.e.isLeaf THEN "joinContentToLeaf" ELSE "finally"
    [] p.cmd = "createDirectoryUnderPath" -> "addDirectoryEntity.getEntity"
    [] p.cmd = "renameFileByPath" -> "renameFile.getEntity"
    [] p.cmd = "deleteFileByPath" -> "deleteLeafEntity.getEntity"
    [] p.cmd = "deleteDirectoryIfEmptyByPath" -> "deleteDirectoryIfEmpty.getEntity"
    [] p.cmd = "updateFileTimestampByPath" -> "updateFileTimestamp.getEntity"
    [] p.cmd = "updateFileContentByPath" -> "updateFile.getEntity"
    [] p.cmd = "transplantAncestorsByPath" -> "transplantAncestors"
    [] OTHER -> "finally"

ReplyName(cmd, ok) ==
  CASE cmd = "createFile" -> IF ok THEN "createFileSuccess" ELSE "createFileFailure"
    [] cmd = "readFileByPath" -> IF ok THEN "readFileSuccess" ELSE "readFileFailure"
    [] cmd = "createDirectoryUnderPath" ->
         IF ok THEN "createDirectorySuccess" ELSE "createDirectoryFailure"
    [] cmd = "renameFileByPath" -> IF ok THEN "renameFileSuccess" ELSE "renameFileFailure"
    [] cmd = "deleteFileByPath" -> IF ok THEN "deleteFileSuccess" ELSE "deleteFileFailure"
    [] cmd = "deleteDirectoryIfEmptyByPath" ->
         IF ok THEN "deleteFileSuccess" ELSE "deleteFileFailure"
    [] cmd = "updateFileTimestampByPath" ->
         IF ok THEN "updateFileTimestampSuccess" ELSE "updateFileTimestampFailure"
    [] cmd = "updateFileContentByPath" ->
         IF ok THEN "updateFileSuccess" ELSE "updateFileFailure"
    [] cmd = "reparentFileByPath" ->
         IF ok THEN "updateFileSuccess" ELSE "updateFileFailure"
    [] cmd = "transplantAncestorsByPath" ->
         IF ok THEN "transplantAncestorsSuccess" ELSE "transplantAncestorsFailure"
    [] OTHER -> "none"

\* a machine that took command events in whatever state it is in
AwaitingCommandAnywhere(a, inputs) ==
  /\ ncmd < MaxCmds
  /\ \E c \in inputs :
       SetProc(a, [IdleProc EXCEPT !.st = "getEntity", !.cmd = c.cmd,
                     !.via = "operator", !.cwd = proc[a].cwd, !.path = c.path,
                     !.name = c.name, !.body = c.body, !.dur = DefaultDurationMs,
                     !.out = "pending"])
  /\ ncmd' = ncmd + 1
  /\ UNCHANGED <<entity, content, lock, now, pruner, nprune, twin>>

\* awaitingCommand: a command event moves the operator into its command state.
\* Only awaitingCommand has transitions on command events; in every other
\* state of the machine the event is dropped, which changes nothing
AwaitingCommand(a, inputs) ==
  /\ proc[a].st = "awaitingCommand"
  /\ ncmd < MaxCmds
  /\ \E c \in inputs :
       SetProc(a, [IdleProc EXCEPT !.st = "getEntity", !.cmd = c.cmd,
                     !.via = "operator", !.cwd = proc[a].cwd, !.path = c.path,
                     !.name = c.name, !.body = c.body, !.dur = DefaultDurationMs,
                     !.out = "pending"])
  /\ ncmd' = ncmd + 1
  /\ UNCHANGED <<entity, content, lock, now, pruner, nprune, twin>>

\* getEntityByPath(db, cwd, path) at the head of the try block
ResolveEntity(a) ==
  LET p == proc[a]
      n == Normalize(p.path, CwdPieces(a))
      r == EntityGet(entity, n)
  IN /\ p.st = "getEntity"
     /\ IF n = NoPath \/ r = NoEntity
        THEN SetProc(a, Fail(p, "NotFound"))
        ELSE SetProc(a, [p EXCEPT !.e = r, !.path = NoPath, !.st = "lockPath"])
     /\ UNCHANGED <<entity, content, lock, now, pruner, ncmd, nprune, twin>>

\* lockPath(db, cwd, path, durationMs): one add() on the lock store
LockPath(a) ==
  LET p == proc[a]
      n == Normalize(p.e.path, CwdPieces(a))
  IN /\ p.st = "lockPath"
     /\ IF n = NoPath \/ LockHas(lock, n)
        THEN /\ SetProc(a, Fail(p, "Contended"))
             /\ UNCHANGED lock
        ELSE /\ lock' = lock \cup {[pathPrefix |-> n, expiry |-> now + p.dur,
                                    createdAt |-> now, owner |-> a]}
             /\ SetProc(a, [p EXCEPT !.lockId = n, !.refs = <<n>>, !.dur = 0,
                              !.st = "rejectIfConflicting.getEntity"])
     /\ UNCHANGED <<entity, content, now, pruner, ncmd, nprune, twin>>

\* rejectIfConflictingLockPathPrefixes, first half: getEntity of every
\* reference path (Promise.all rejects when one is missing)
RejectGetEntities(a) ==
  LET p == proc[a]
      ns == [i \in 1..Len(p.refs) |-> Normalize(p.refs[i], CwdPieces(a))]
      rs == [i \in 1..Len(p.refs) |-> EntityGet(entity, ns[i])]
  IN /\ p.st = "rejectIfConflicting.getEntity"
     /\ IF \E i \in 1..Len(p.refs) : ns[i] = NoPath \/ rs[i] = NoEntity
        THEN SetProc(a, Fail(p, "NotFound"))
        ELSE SetProc(a, [p EXCEPT !.paths = [i \in 1..Len(p.refs) |-> rs[i].path],
                           !.refs = <<>>, !.st = "rejectIfConflicting.getAll"])
     /\ UNCHANGED <<entity, content, lock, now, pruner, ncmd, nprune, twin>>

\* rejectIfConflictingLockPathPrefixes, second half: read the unexpired rows
\* and count the conflicts
RejectReadLocks(a) ==
  LET p == proc[a]
  IN /\ p.st = "rejectIfConflicting.getAll"
     /\ IF Conflicts(p.paths, UnexpiredLocks(lock, now)) # 0
        THEN SetProc(a, Fail(p, "Conflict"))
        ELSE IF OpEntry(p) = "finally" THEN SetProc(a, Finish(p, "rej"))
        ELSE SetProc(a, [p EXCEPT !.arg = p.e.path, !.paths = <<>>,
                           !.checked = TRUE, !.st = OpEntry(p)])
     /\ UNCHANGED <<entity, content, lock, now, pruner, ncmd, nprune, twin>>

\* createFile, second try block: `parent` was declared inside the first try
\* block and is not in scope here, so the argument list of addFileEntity does
\* not evaluate to a parent and the call fails before any store request
CreateFileSecondTry(a) ==
  LET p == proc[a]
  IN /\ p.st = "createFile.addFileEntity"
     /\ SetProc(a, Finish(p, "rej"))
     /\ UNCHANGED <<entity, content, lock, now, pruner, ncmd, nprune, twin>>

\* a finally block that does not release
RemoveLockSkipped(a) ==
  /\ proc[a].st = "finally"
  /\ SetProc(a, [proc[a] EXCEPT !.st = "settled"])
  /\ UNCHANGED <<entity, content, lock, now, pruner, ncmd, nprune, twin>>

\* the finally block: removeLock(db, newLockId), errors swallowed.  The
\* delete transaction is created here, before the machine can take onDone /
\* onError, and every later transaction on the lock store is ordered after
\* it, so the row is gone for every reader from this step on
RemoveLock(a) ==
  LET p == proc[a]
  IN /\ p.st = "finally"
     /\ lock' = IF p.lockId = NoPath THEN lock ELSE LockDelete(lock, p.lockId)
     /\ SetProc(a, [p EXCEPT !.st = "settled"])
     /\ UNCHANGED <<entity, content, now, pruner, ncmd, nprune, twin>>

\* onDone / onError of the invoked promise: reply to the parent and return to
\* awaitingCommand
Reply(a) ==
  LET p == proc[a]
  IN /\ p.st = "settled"
     /\ SetProc(a, [IdleProc EXCEPT !.cwd = p.cwd,
                      !.reply = ReplyName(p.cmd, p.out = "res")])
     /\ UNCHANGED <<entity, content, lock, now, pruner, ncmd, nprune, twin>>

\* ------------------------------------------------------------ the tree ops
\* joinContentToLeaf(db, leaf): the success handler reads
\* e.target.result.content; with no row the result is undefined, the handler
\* throws and the promise is never settled
JoinContentToLeaf(a) ==
  LET p == proc[a]
  IN /\ p.st = "joinContentToLeaf"
     /\ IF ContentHas(content, p.e.path)
        THEN SetProc(a, [Finish(p, "res") EXCEPT !.cont = ContentGet(content, p.e.path)])
        ELSE SetProc(a, [p EXCEPT !.st = "unsettled"])
     /\ UNCHANGED <<entity, content, lock, now, pruner, ncmd, nprune, twin>>

\* addDirectoryEntity: getEntity of the parent
AddDirectoryGetParent(a) ==
  LET p == proc[a]
      n == Normalize(p.arg, CwdPieces(a))
      r == EntityGet(entity, n)
  IN /\ p.st = "addDirectoryEntity.getEntity"
     /\ IF n = NoPath \/ r = NoEntity
        THEN SetProc(a, Finish(p, "rej"))
        ELSE SetProc(a, [p EXCEPT !.parent = r, !.st = "addDirectoryEntity.add"])
     /\ UNCHANGED <<entity, content, lock, now, pruner, ncmd, nprune, twin>>

\* addDirectoryEntity: add the directory row (no check of the parent's kind
\* or of the name)
AddDirectoryAdd(a) ==
  LET p == proc[a]
      n2 == Normalize(p.parent.path \o p.name \o Slash, CwdPieces(a))
      rec == [path |-> n2, isLeaf |-> FALSE, parentPath |-> p.parent.path,
              createdAt |-> now, updatedAt |-> now, name |-> p.name]
  IN /\ p.st = "addDirectoryEntity.add"
     /\ IF n2 = NoPath \/ EntityConstraint(entity, rec)
        THEN /\ SetProc(a, Finish(p, "rej"))
             /\ UNCHANGED entity
        ELSE /\ entity' = entity \cup {rec}
             /\ SetProc(a, Finish(p, "res"))
     /\ UNCHANGED <<content, lock, now, pruner, ncmd, nprune, twin>>

\* addFileEntity: getEntity of the parent
AddFileGetParent(a) ==
  LET p == proc[a]
      n == Normalize(p.arg, CwdPieces(a))
      r == EntityGet(entity, n)
  IN /\ p.st = "addFileEntity.getEntity"
     /\ IF n = NoPath \/ r = NoEntity
        THEN SetProc(a, FinishInner(p, "rej"))
        ELSE SetProc(a, [p EXCEPT !.parent = r, !.arg = NoPath,
                           !.st = "addFileEntity.add"])
     /\ UNCHANGED <<entity, content, lock, now, pruner, ncmd, nprune, twin>>

\* addFileEntity: rej() for a leaf parent or an invalid name does not return,
\* so the add request is issued all the same; a rejected promise skips the
\* content record
AddFileAdd(a) ==
  LET p == proc[a]
      rejected == p.parent.isLeaf \/ ~ValidName(p.name)
      n2 == Normalize(p.parent.path \o p.name, CwdPieces(a))
      rec == [path |-> n2, isLeaf |-> TRUE, parentPath |-> p.parent.path,
              createdAt |-> now, updatedAt |-> now, name |-> p.name]
  IN /\ p.st = "addFileEntity.add"
     /\ IF n2 = NoPath \/ EntityConstraint(entity, rec)
        THEN /\ SetProc(a, FinishInner(p, "rej"))
             /\ UNCHANGED entity
        ELSE /\ entity' = entity \cup {rec}
             /\ IF rejected THEN SetProc(a, FinishInner(p, "rej"))
                ELSE SetProc(a, [p EXCEPT !.newPath = n2, !.parent = NoEntity,
                                   !.name = <<>>, !.st = "addFileEntity.put"])
     /\ UNCHANGED <<content, lock, now, pruner, ncmd, nprune, twin>>

\* addFileEntity: insertContentRecord(db, cwd, leafPath, content)
AddFilePutContent(a) ==
  LET p == proc[a]
  IN /\ p.st = "addFileEntity.put"
     /\ content' = ContentPut(content, p.newPath, p.body)
     /\ SetProc(a, FinishInner(p, "res"))
     /\ UNCHANGED <<entity, lock, now, pruner, ncmd, nprune, twin>>

\* renameFile: getEntity of the file
RenameGetFile(a) ==
  LET p == proc[a]
      n == Normalize(p.arg, CwdPieces(a))
      r == EntityGet(entity, n)
  IN /\ p.st = "renameFile.getEntity"
     /\ IF n = NoPath \/ r = NoEntity
        THEN SetProc(a, Finish(p, "rej"))
        ELSE SetProc(a, [p EXCEPT !.file = r, !.arg = NoPath, !.e = NoEntity,
                           !.st = "renameFile.getParent"])
     /\ UNCHANGED <<entity, content, lock, now, pruner, ncmd, nprune, twin>>

\* renameFile: getEntity of file.parentPath
RenameGetParent(a) ==
  LET p == proc[a]
      n == Normalize(p.file.parentPath, CwdPieces(a))
      r == EntityGet(entity, n)
  IN /\ p.st = "renameFile.getParent"
     /\ IF n = NoPath \/ r = NoEntity
        THEN SetProc(a, Finish(p, "rej"))
        ELSE SetProc(a, [p EXCEPT !.parent = r, !.st = "renameFile.delete"])
     /\ UNCHANGED <<entity, content, lock, now, pruner, ncmd, nprune, twin>>

\* renameFile: rej() for a directory or an invalid name does not return, so
\* the old entity row is deleted all the same
RenameDeleteEntity(a) ==
  LET p == proc[a]
      rejected == ~p.file.isLeaf \/ ~ValidName(p.name)
      n == Normalize(p.parent.path \o p.name, CwdPieces(a))
  IN /\ p.st = "renameFile.delete"
     /\ IF n = NoPath
        THEN /\ SetProc(a, Finish(p, "rej"))
             /\ UNCHANGED entity
        ELSE /\ entity' = EntityDelete(entity, p.file.path)
             /\ IF rejected THEN SetProc(a, Finish(p, "rej"))
                ELSE SetProc(a, [p EXCEPT !.newPath = n,
                                   !.st = "renameFile.getContent"])
     /\ UNCHANGED <<content, lock, now, pruner, ncmd, nprune, twin>>

\* renameFile: read the old content row
RenameGetContent(a) ==
  LET p == proc[a]
  IN /\ p.st = "renameFile.getContent"
     /\ IF ContentHas(content, p.file.path)
        THEN SetProc(a, [p EXCEPT !.cont = ContentGet(content, p.file.path),
                           !.st = "renameFile.deleteContent"])
        ELSE SetProc(a, Finish(p, "rej"))
     /\ UNCHANGED <<entity, content, lock, now, pruner, ncmd, nprune, twin>>

\* renameFile: Promise.allSettled([delete the old content row,
\* addFileEntity(db, cwd, newName, parent.path, content.content)])
RenameDeleteContent(a) ==
  LET p == proc[a]
  IN /\ p.st = "renameFile.deleteContent"
     /\ content' = ContentDelete(content, p.file.path)
     /\ SetProc(a, [p EXCEPT !.inner = "renameFile", !.arg = p.parent.path,
                      !.body = p.cont, !.cont = NoBody, !.file = NoEntity,
                      !.parent = NoEntity, !.newPath = NoPath,
                      !.st = "addFileEntity.getEntity"])
     /\ UNCHANGED <<entity, lock, now, pruner, ncmd, nprune, twin>>

\* deleteLeafEntity: getEntity, throw for a directory
DeleteLeafGet(a) ==
  LET p == proc[a]
      n == Normalize(p.arg, CwdPieces(a))
      r == EntityGet(entity, n)
  IN /\ p.st = "deleteLeafEntity.getEntity"
     /\ IF n = NoPath \/ r = NoEntity \/ ~r.isLeaf
        THEN SetProc(a, Finish(p, "rej"))
        ELSE SetProc(a, [p EXCEPT !.e = NoEntity,
                           !.st = "deleteLeafEntity.deleteEntity"])
     /\ UNCHANGED <<entity, content, lock, now, pruner, ncmd, nprune, twin>>

\* deleteLeafEntity: deleteEntity(db, cwd, path)
DeleteLeafEntity(a) ==
  LET p == proc[a]
      n == Normalize(p.arg, CwdPieces(a))
  IN /\ p.st = "deleteLeafEntity.deleteEntity"
     /\ entity' = EntityDelete(entity, n)
     /\ SetProc(a, [p EXCEPT !.arg = n, !.st = "deleteLeafEntity.deleteContent"])
     /\ UNCHANGED <<content, lock, now, pruner, ncmd, nprune, twin>>

\* deleteLeafEntity: deleteContentRecord(db, cwd, leafPath)
DeleteLeafContent(a) ==
  LET p == proc[a]
      n == Normalize(p.arg, CwdPieces(a))
  IN /\ p.st = "deleteLeafEntity.deleteContent"
     /\ content' = ContentDelete(content, n)
     /\ SetProc(a, Finish(p, "res"))
     /\ UNCHANGED <<entity, lock, now, pruner, ncmd, nprune, twin>>

\* deleteDirectoryIfEmpty: getEntity
DeleteDirGet(a) ==
  LET p == proc[a]
      n == Normalize(p.arg, CwdPieces(a))
      r == EntityGet(entity, n)
  IN /\ p.st = "deleteDirectoryIfEmpty.getEntity"
     /\ IF n = NoPath \/ r = NoEntity
        THEN SetProc(a, Finish(p, "rej"))
        ELSE SetProc(a, [p EXCEPT !.file = r, !.arg = NoPath, !.e = NoEntity,
                           !.st = "deleteDirectoryIfEmpty.count"])
     /\ UNCHANGED <<entity, content, lock, now, pruner, ncmd, nprune, twin>>

\* deleteDirectoryIfEmpty without its rejections of the root and of a prefix of
\* the working directory
DeleteDirCountUnguarded(a) ==
  LET p == proc[a]
      rejected == p.file.isLeaf \/ ChildKeys(entity, p.file.path) # {}
  IN /\ p.st = "deleteDirectoryIfEmpty.count"
     /\ IF rejected THEN SetProc(a, Finish(p, "rej"))
        ELSE SetProc(a, [p EXCEPT !.arg = p.file.path, !.file = NoEntity,
                           !.st = "deleteDirectoryIfEmpty.deleteEntity"])
     /\ UNCHANGED <<entity, content, lock, now, pruner, ncmd, nprune, twin>>

\* deleteDirectoryIfEmpty: the three rejections and the count of the children;
\* only a promise that was not rejected goes on to deleteEntity
DeleteDirCount(a) ==
  LET p == proc[a]
      rejected == \/ p.file.isLeaf
                  \/ p.file.path = Root
                  \/ StartsWith(p.cwd, p.file.path)
                  \/ ChildKeys(entity, p.file.path) # {}
  IN /\ p.st = "deleteDirectoryIfEmpty.count"
     /\ IF rejected THEN SetProc(a, Finish(p, "rej"))
        ELSE SetProc(a, [p EXCEPT !.arg = p.file.path, !.file = NoEntity,
                           !.st = "deleteDirectoryIfEmpty.deleteEntity"])
     /\ UNCHANGED <<entity, content, lock, now, pruner, ncmd, nprune, twin>>

\* a deleteDirectoryIfEmpty that resolves without its delete
DeleteDirEntitySkipped(a) ==
  LET p == proc[a]
  IN /\ p.st = "deleteDirectoryIfEmpty.deleteEntity"
     /\ SetProc(a, Finish(p, "res"))
     /\ UNCHANGED <<entity, content, lock, now, pruner, ncmd, nprune, twin>>

\* deleteDirectoryIfEmpty: deleteEntity(db, cwd, path)
DeleteDirEntity(a) ==
  LET p == proc[a]
      n == Normalize(p.arg, CwdPieces(a))
  IN /\ p.st = "deleteDirectoryIfEmpty.deleteEntity"
     /\ entity' = EntityDelete(entity, n)
     /\ SetProc(a, Finish(p, "res"))
     /\ UNCHANGED <<content, lock, now, pruner, ncmd, nprune, twin>>

\* updateFile: getEntity, then Promise.allSettled([updateFileTimestamp,
\* updateContentRecord]); here the content record
UpdateFileGet(a) ==
  LET p == proc[a]
      n == Normalize(p.arg, CwdPieces(a))
      r == EntityGet(entity, n)
  IN /\ p.st = "updateFile.getEntity"
     /\ IF n = NoPath \/ r = NoEntity
        THEN SetProc(a, Finish(p, "rej"))
        ELSE SetProc(a, [p EXCEPT !.e = NoEntity, !.inner = "updateFile",
                           !.st = "updateFile.updateContentRecord"])
     /\ UNCHANGED <<entity, content, lock, now, pruner, ncmd, nprune, twin>>

\* updateContentRecord: a cursor over the one key, updating the row if any
UpdateFileContent(a) ==
  LET p == proc[a]
      n == Normalize(p.arg, CwdPieces(a))
  IN /\ p.st = "updateFile.updateContentRecord"
     /\ content' = IF ContentHas(content, n) THEN ContentPut(content, n, p.body)
                   ELSE content
     /\ SetProc(a, [p EXCEPT !.body = NoBody, !.st = "updateFileTimestamp.getEntity"])
     /\ UNCHANGED <<entity, lock, now, pruner, ncmd, nprune, twin>>

\* updateFileTimestamp: getEntity
UpdateTimestampGet(a) ==
  LET p == proc[a]
      n == Normalize(p.arg, CwdPieces(a))
      r == EntityGet(entity, n)
  IN /\ p.st = "updateFileTimestamp.getEntity"
     /\ IF n = NoPath \/ r = NoEntity
        THEN SetProc(a, FinishInner(p, "rej"))
        ELSE SetProc(a, [p EXCEPT !.file = r, !.arg = NoPath, !.e = NoEntity,
                           !.st = "updateFileTimestamp.update"])
     /\ UNCHANGED <<entity, content, lock, now, pruner, ncmd, nprune, twin>>

\* an updateFileTimestamp whose cursor is opened without the key range
UpdateTimestampEveryRow(a) ==
  LET p == proc[a]
      rejected == ~p.file.isLeaf
  IN /\ p.st = "updateFileTimestamp.update"
     /\ entity' = {[r EXCEPT !.updatedAt = now] : r \in entity}
     /\ SetProc(a, FinishInner(p, IF rejected THEN "rej" ELSE "res"))
     /\ UNCHANGED <<content, lock, now, pruner, ncmd, nprune, twin>>

\* updateFileTimestamp: rej() for a directory does not return, so the cursor
\* sets updatedAt on the row all the same
UpdateTimestampUpdate(a) ==
  LET p == proc[a]
      rejected == ~p.file.isLeaf
  IN /\ p.st = "updateFileTimestamp.update"
     /\ entity' = {IF r.path = p.file.path THEN [r EXCEPT !.updatedAt = now] ELSE r :
                     r \in entity}
     /\ SetProc(a, FinishInner(p, IF rejected THEN "rej" ELSE "res"))
     /\ UNCHANGED <<content, lock, now, pruner, ncmd, nprune, twin>>

\* emptyDirectory: getEntity
EmptyDirGet(a) ==
  LET p == proc[a]
      n == Normalize(p.arg, CwdPieces(a))
      r == EntityGet(entity, n)
  IN /\ p.st = "emptyDirectory.getEntity"
     /\ IF n = NoPath \/ r = NoEntity
        THEN SetProc(a, Finish(p, "rej"))
        ELSE SetProc(a, [p EXCEPT !.file = r, !.arg = NoPath,
                           !.st = "emptyDirectory.count"])
     /\ UNCHANGED <<entity, content, lock, now, pruner, ncmd, nprune, twin>>

\* emptyDirectory: reject a leaf and a directory without children
EmptyDirCount(a) ==
  LET p == proc[a]
      rejected == p.file.isLeaf \/ ChildKeys(entity, p.file.path) = {}
  IN /\ p.st = "emptyDirectory.count"
     /\ IF rejected THEN SetProc(a, Finish(p, "rej"))
        ELSE SetProc(a, [p EXCEPT !.arg = p.file.path, !.file = NoEntity,
                           !.st = "emptyDirectory.openCursor"])
     /\ UNCHANGED <<entity, content, lock, now, pruner, ncmd, nprune, twin>>

\* emptyDirectory: the cursor over (pathPrefix, pathPrefix + U+FFFF] deletes
\* every row and collects the paths of the leaves
EmptyDirCursor(a) ==
  LET p == proc[a]
      rows == StrictlyUnder(entity, p.arg)
  IN /\ p.st = "emptyDirectory.openCursor"
     /\ entity' = entity \ rows
     /\ SetProc(a, [p EXCEPT !.paths = SetToSeq({r.path : r \in {x \in rows : x.isLeaf}}),
                      !.arg = NoPath, !.st = "emptyDirectory.deleteContentRecord"])
     /\ UNCHANGED <<content, lock, now, pruner, ncmd, nprune, twin>>

\* emptyDirectory: Promise.allSettled of deleteContentRecord per deleted leaf
EmptyDirContent(a) ==
  LET p == proc[a]
      ns == {Normalize(p.paths[i], CwdPieces(a)) : i \in 1..Len(p.paths)}
  IN /\ p.st = "emptyDirectory.deleteContentRecord"
     /\ content' = {c \in content : c.leafPath \notin ns}
     /\ SetProc(a, Finish(p, "res"))
     /\ UNCHANGED <<entity, lock, now, pruner, ncmd, nprune, twin>>

\* reparentLeaf: Promise.all of getEntity(path) and getEntity(newParentPath)
ReparentGet(a) ==
  LET p == proc[a]
      n1 == Normalize(p.arg, CwdPieces(a))
      n2 == Normalize(p.path, CwdPieces(a))
      leaf == EntityGet(entity, n1)
      newParent == EntityGet(entity, n2)
  IN /\ p.st = "reparentLeaf.getEntity"
     /\ IF n1 = NoPath \/ n2 = NoPath \/ leaf = NoEntity \/ newParent = NoEntity
        THEN SetProc(a, Finish(p, "rej"))
        ELSE SetProc(a, [p EXCEPT !.file = leaf, !.parent = newParent,
                           !.arg = NoPath, !.path = NoPath,
                           !.st = "reparentLeaf.openCursor"])
     /\ UNCHANGED <<entity, content, lock, now, pruner, ncmd, nprune, twin>>

\* reparentLeaf: rej() for a leaf parent or a directory does not return, so
\* the cursor runs all the same.  cursor.update(u) with u.path changed throws
\* DataError inside the success handler: the transaction aborts and nothing
\* settles the promise.  With u.path unchanged the row is written back with
\* its new parentPath (the unique index permitting)
ReparentCursor(a) ==
  LET p == proc[a]
      rejected == p.parent.isLeaf \/ ~p.file.isLeaf
      newPath == Normalize(p.parent.path \o p.file.name, CwdPieces(a))
      row == EntityGet(entity, p.file.path)
      u == [row EXCEPT !.parentPath = p.parent.path, !.path = newPath]
      o == IF rejected THEN "rej" ELSE "res"
  IN /\ p.st = "reparentLeaf.openCursor"
     /\ IF newPath = NoPath
        THEN SetProc(a, Finish(p, "rej")) /\ UNCHANGED entity
        ELSE IF row = NoEntity
        THEN SetProc(a, Finish(p, o)) /\ UNCHANGED entity
        ELSE IF newPath # row.path
        THEN /\ IF rejected THEN SetProc(a, Finish(p, "rej"))
                ELSE SetProc(a, [Leave(p) EXCEPT !.st = "unsettled"])
             /\ UNCHANGED entity
        ELSE IF EntityConstraint(EntityDelete(entity, row.path), u)
        THEN SetProc(a, Finish(p, "rej")) /\ UNCHANGED entity
        ELSE /\ entity' = EntityDelete(entity, row.path) \cup {u}
             /\ SetProc(a, Finish(p, o))
     /\ UNCHANGED <<content, lock, now, pruner, ncmd, nprune, twin>>

\* a transplantAncestors that reports success
TransplantAncestorsResolves(a) ==
  LET p == proc[a]
  IN /\ p.st = "transplantAncestors"
     /\ SetProc(a, [Finish(p, "res") EXCEPT !.arg = p.arg, !.path = p.path])
     /\ UNCHANGED <<entity, content, lock, now, pruner, ncmd, nprune, twin>>

\* transplantAncestors(db, oldParentPath, newParentPath): the body passes
\* `cwd` to getEntity, a name that is declared nowhere, so the call throws
\* ReferenceError before any store request; the caller still has the two
\* paths it passed
TransplantAncestors(a) ==
  LET p == proc[a]
  IN /\ p.st = "transplantAncestors"
     /\ SetProc(a, [Finish(p, "rej") EXCEPT !.arg = p.arg, !.path = p.path])
     /\ UNCHANGED <<entity, content, lock, now, pruner, ncmd, nprune, twin>>

\* the first state of a library function
LibEntry(op) ==
  CASE op = "transplantAncestors" -> "transplantAncestors"
    [] OTHER -> op \o ".getEntity"

\* a program calls an exported function of the library and awaits it
DirectCall(a, inputs) ==
  /\ proc[a].st = "awaitingCommand"
  /\ ncmd < MaxCalls
  /\ \E c \in inputs :
       SetProc(a, [IdleProc EXCEPT !.st = LibEntry(c.op), !.cmd = c.op,
                     !.via = "direct", !.cwd = proc[a].cwd, !.arg = c.path,
                     !.path = c.other, !.name = c.name, !.body = c.body,
                     !.out = "pending"])
  /\ ncmd' = ncmd + 1
  /\ UNCHANGED <<entity, content, lock, now, pruner, nprune, twin>>

\* the calls a program makes after it has moved its working directory
WorkingDirectoryInputs ==
  { Call("deleteDirectoryIfEmpty", DirA, NoPath, <<>>, NoBody) }

\* a program calls an exported function with another cwd argument
DirectCallFrom(a, cwd, inputs) ==
  /\ proc[a].st = "awaitingCommand"
  /\ ncmd < MaxCalls
  /\ \E c \in inputs :
       SetProc(a, [IdleProc EXCEPT !.st = LibEntry(c.op), !.cmd = c.op,
                     !.via = "direct", !.cwd = cwd, !.arg = c.path,
                     !.path = c.other, !.name = c.name, !.body = c.body,
                     !.out = "pending"])
  /\ ncmd' = ncmd + 1
  /\ UNCHANGED <<entity, content, lock, now, pruner, nprune, twin>>

\* ------------------------------------------------------------- the pruner
\* lockTablePruner.idle on pruneExpiredLocks
PruneEvent(a) ==
  /\ pruner[a].st = "idle"
  /\ nprune < MaxPrunes
  /\ nprune' = nprune + 1
  /\ pruner' = [pruner EXCEPT ![a].st = "pruning"]
  /\ UNCHANGED <<entity, content, lock, now, proc, ncmd, twin>>

\* pruneExpiredLocks, first half: the keys with expiry <= Date.now(); `at` is
\* the Date.now() of this read
PruneRead(a) ==
  LET ks == ExpiredKeys(lock, now)
  IN /\ pruner[a].st = "pruning"
     /\ pruner' = [pruner EXCEPT ![a] =
                     IF ks = {} THEN IdlePruner
                     ELSE [st |-> "deleting", keys |-> ks, at |-> now]]
     /\ UNCHANGED <<entity, content, lock, now, proc, ncmd, nprune, twin>>

\* pruneExpiredLocks, second half: one delete transaction per key
PruneDelete(a) ==
  /\ pruner[a].st = "deleting"
  /\ \E k \in pruner[a].keys :
       /\ lock' = LockDelete(lock, k)
       /\ pruner' = [pruner EXCEPT ![a] =
                       IF pruner[a].keys = {k} THEN IdlePruner
                       ELSE [pruner[a] EXCEPT !.keys = @ \ {k}]]
  /\ UNCHANGED <<entity, content, now, proc, ncmd, nprune, twin>>

\* Date.now() advances, by one lock lifetime at a time
Tick ==
  /\ now < MaxTime * DefaultDurationMs
  /\ now' = now + DefaultDurationMs
  /\ UNCHANGED <<entity, content, lock, proc, pruner, ncmd, nprune, twin>>

OperatorStep(a) ==
  \/ AwaitingCommand(a, CommandInputs)
  \/ ResolveEntity(a)
  \/ LockPath(a)
  \/ RejectGetEntities(a)
  \/ RejectReadLocks(a)
  \/ CreateFileSecondTry(a)
  \/ RemoveLock(a)
  \/ Reply(a)

\* the tree ops the commands of CommandInputs reach
TreeOpStep(a) ==
  \/ JoinContentToLeaf(a)
  \/ RenameGetFile(a)
  \/ RenameGetParent(a)
  \/ RenameDeleteEntity(a)
  \/ RenameGetContent(a)
  \/ RenameDeleteContent(a)
  \/ AddFileGetParent(a)
  \/ AddFileAdd(a)
  \/ AddFilePutContent(a)
  \/ DeleteLeafGet(a)
  \/ DeleteLeafEntity(a)
  \/ DeleteLeafContent(a)

PrunerStep(a) ==
  \/ PruneEvent(a)
  \/ PruneRead(a)
  \/ PruneDelete(a)

Next ==
  \/ \E a \in Actors : OperatorStep(a)
  \/ \E a \in Actors : TreeOpStep(a)
  \/ \E a \in Actors : PrunerStep(a)
  \/ Tick

Spec == Init /\ [][Next]_vars

\* the library on its own: one program calling the exported tree ops
LibraryStep(a) ==
  \/ DirectCall(a, LibraryInputs)
  \/ DirectCallFrom(a, DirA, WorkingDirectoryInputs)
  \/ AddDirectoryGetParent(a)
  \/ AddDirectoryAdd(a)
  \/ AddFileGetParent(a)
  \/ AddFileAdd(a)
  \/ AddFilePutContent(a)
  \/ RenameGetFile(a)
  \/ RenameGetParent(a)
  \/ RenameDeleteEntity(a)
  \/ RenameGetContent(a)
  \/ RenameDeleteContent(a)
  \/ DeleteLeafGet(a)
  \/ DeleteLeafEntity(a)
  \/ DeleteLeafContent(a)
  \/ DeleteDirGet(a)
  \/ DeleteDirCount(a)
  \/ DeleteDirEntity(a)
  \/ EmptyDirGet(a)
  \/ EmptyDirCount(a)
  \/ EmptyDirCursor(a)
  \/ EmptyDirContent(a)
  \/ UpdateFileGet(a)
  \/ UpdateFileContent(a)
  \/ UpdateTimestampGet(a)
  \/ UpdateTimestampUpdate(a)
  \/ ReparentGet(a)
  \/ ReparentCursor(a)
  \/ TransplantAncestors(a)

NextTree ==
  \/ LibraryStep(Caller)
  \/ Tick

SpecTree == Init /\ [][NextTree]_vars

\* ---------------------------------------------------------- initialization
\* a machine as createMachine leaves it: uninitialized.idle
NewProc == [IdleProc EXCEPT !.st = "uninitialized.idle", !.fsName = NoFsName]

Uninitialized(a) ==
  proc[a].st \in {"uninitialized.idle", "uninitialized.initializing",
                  "uninitialized.seeding"}

\* the database the actors open: new, or one that was seeded before
InitBoot ==
  /\ \/ entity = {} /\ content = {}
     \/ entity = SeedEntity /\ content = SeedContent
  /\ lock = {}
  /\ now = 0
  /\ proc = [a \in Actors |-> NewProc]
  /\ pruner = [a \in Actors |-> IdlePruner]
  /\ ncmd = 0
  /\ nprune = 0
  /\ twin = NoTwin

\* uninitialized.idle on init (with a string filesystemName)
InitEvent(a) ==
  /\ proc[a].st = "uninitialized.idle"
  /\ SetProc(a, [proc[a] EXCEPT !.st = "uninitialized.initializing",
                              !.fsName = FsName])
  /\ UNCHANGED <<entity, content, lock, now, pruner, ncmd, nprune, twin>>

\* initializing: indexedDB.open succeeds (onDone: seeding) or fails
\* (onError: idle)
OpenDatabase(a) ==
  /\ proc[a].st = "uninitialized.initializing"
  /\ \E ok \in BOOLEAN :
       SetProc(a, [proc[a] EXCEPT !.st = IF ok THEN "uninitialized.seeding"
                                        ELSE "uninitialized.idle"])
  /\ UNCHANGED <<entity, content, lock, now, pruner, ncmd, nprune, twin>>

\* seeding: add the root row; onDone enters initialized, both regions in
\* their initial states, with the context as it is (no assign).  The error
\* handler destructures `name` from the
\* error event, which has no such property, so a ConstraintError (the root is
\* there already) is not recognised and the promise is rejected: onError
\* goes back to idle
Seeding(a) ==
  /\ proc[a].st = "uninitialized.seeding"
  /\ IF \E r \in entity : r.path = Root
     THEN /\ SetProc(a, [proc[a] EXCEPT !.st = "uninitialized.idle"])
          /\ UNCHANGED <<entity, pruner>>
     ELSE /\ entity' = entity \cup {[RootEntity EXCEPT !.createdAt = now,
                                                       !.updatedAt = now]}
          /\ SetProc(a, [IdleProc EXCEPT !.fsName = proc[a].fsName,
                                         !.cwd = proc[a].cwd])
          /\ pruner' = [pruner EXCEPT ![a] = IdlePruner]
  /\ UNCHANGED <<content, lock, now, ncmd, nprune, twin>>

BootStep(a) ==
  \/ InitEvent(a)
  \/ OpenDatabase(a)
  \/ Seeding(a)

\* actors from their construction on.  Only the actor that seeds a new
\* database gets initialized, and on a tree that holds the root alone no
\* command of CommandInputs gets as far as a tree op
NextBoot ==
  \/ \E a \in Actors : BootStep(a)
  \/ \E a \in Actors : OperatorStep(a)

SpecBoot == InitBoot /\ [][NextBoot]_vars


\* ------------------------------------------------------ the lock protocol
\* the rows of the lock store that actor a added
OwnRows(a) == {l \in lock : l.owner = a}

\* a is in the tree-op phase of a command: lockPath and the overlap check
\* have succeeded and the finally block has not run
InTreeOp(a) == proc[a].via = "operator" /\ proc[a].checked

\* a holds an unexpired lock on the prefix it acquired
HoldsUnexpired(a, l) ==
  l \in OwnRows(a) /\ l.pathPrefix = proc[a].lockId /\ l.expiry > now

Overlap(x, y) == StartsWith(x, y) \/ StartsWith(y, x)

\* C1: never are two actors both in the tree-op phase while they hold
\* unexpired locks one of whose prefixes is a string prefix of (or equal to)
\* the other, whichever of the two was acquired first
C1_NoOverlappingTreeOps ==
  \A a, b \in Actors :
    (a # b /\ InTreeOp(a) /\ InTreeOp(b)) =>
      ~ \E la, lb \in lock :
          /\ HoldsUnexpired(a, la)
          /\ HoldsUnexpired(b, lb)
          /\ Overlap(la.pathPrefix, lb.pathPrefix)

\* C2: an actor whose overlap check succeeds holds no prefix that is a
\* proper descendant of a prefix in another unexpired row of the lock store:
\* while A holds an ancestor, B on the descendant never reaches its tree op
C2_DescendantRejected ==
  [][\A b \in Actors :
       (proc[b].st = "rejectIfConflicting.getAll" /\ proc'[b].checked) =>
         ~ \E l \in lock :
             /\ l.pathPrefix # proc[b].lockId
             /\ l.expiry >= now
             /\ StartsWith(proc[b].lockId, l.pathPrefix)]_vars

\* B was rejected by the overlap check while A holds an unexpired lock on an
\* ancestor of B's prefix
C2_Witness ==
  \E a, b \in Actors :
    /\ a # b
    /\ proc[b].st = "finally" /\ proc[b].err = "Conflict"
    /\ \E l \in OwnRows(a) :
         /\ l.expiry > now
         /\ l.pathPrefix # proc[b].lockId
         /\ StartsWith(proc[b].lockId, l.pathPrefix)

\* C3: when both actors have replied to createFile of the same name under
\* the same parent, exactly one reply is createFileSuccess and the other is
\* createFileFailure
C3_ExactlyOneCreates ==
  (\A a \in Actors : proc[a].reply \in {"createFileSuccess", "createFileFailure"}) =>
    Cardinality({a \in Actors : proc[a].reply = "createFileSuccess"}) = 1

\* C4: no two rows of the lock store have the same pathPrefix, and a lockPath
\* for a prefix whose row exists fails without adding a row
C4_LockRowsUnique ==
  /\ [](\A l1, l2 \in lock : l1.pathPrefix = l2.pathPrefix => l1 = l2)
  /\ [][\A a \in Actors :
          (/\ proc[a].st = "lockPath"
           /\ proc'[a].st # "lockPath"
           /\ \E l \in lock : l.pathPrefix = Normalize(proc[a].e.path, CwdPieces(a))) =>
            (lock' = lock /\ proc'[a].lockId = NoPath /\ proc'[a].out = "rej")]_vars

\* a lockPath failed on a prefix another actor holds
C4_Witness ==
  \E a, b \in Actors :
    /\ a # b
    /\ proc[a].err = "Contended" /\ proc[a].lockId = NoPath
    /\ proc[a].st = "finally"
    /\ OwnRows(b) # {}
    /\ OwnRows(a) = {}

\* C5: an actor that has left its finally block, and so an actor in
\* awaitingCommand, owns no lock row, whether its tree op succeeded, failed
\* or the overlap check rejected
C5_ReleasedBeforeAwaiting ==
  \A a \in Actors :
    proc[a].st \in {"settled", "awaitingCommand"} => OwnRows(a) = {}

\* a command that acquired a lock and was rejected by the overlap check has
\* left its finally block
C5_Witness ==
  \E a \in Actors :
    /\ proc[a].st = "settled"
    /\ proc[a].lockId # NoPath
    /\ proc[a].err = "Conflict"
    /\ OwnRows(a) = {}

\* C6: no command leaves the operator stuck in a per-command state: an actor
\* outside awaitingCommand always has a step to take
C6_NeverStuck ==
  \A a \in Actors :
    proc[a].st # "awaitingCommand" => ENABLED (OperatorStep(a) \/ TreeOpStep(a))

\* ------------------------------------------------- the tree at quiescence
\* no call or command is in flight
Quiescent == \A a \in Actors : proc[a].st = "awaitingCommand"

\* C7: at quiescence every non-root entity has an entity at its parentPath
\* and that entity is a directory
C7_ParentIsDirectory ==
  Quiescent =>
    \A E \in entity :
      E.path # Root => \E P \in entity : P.path = E.parentPath /\ ~P.isLeaf

\* C8: at quiescence each leaf has exactly one content row and each content
\* row has a leaf at its leafPath
C8_LeafContentBijection ==
  Quiescent =>
    /\ \A E \in entity :
         E.isLeaf => Cardinality({c \in content : c.leafPath = E.path}) = 1
    /\ \A c \in content : \E E \in entity : E.isLeaf /\ E.path = c.leafPath

\* C9: exactly one entity has parentPath = null and it is the root: path
\* "/", a directory, the empty name
C9_SingleRoot ==
  /\ Cardinality({E \in entity : E.parentPath = NoPath}) = 1
  /\ \A E \in entity :
       E.parentPath = NoPath => (E.path = Root /\ ~E.isLeaf /\ E.name = <<>>)

\* C10: at quiescence the path of every non-root entity is its parentPath
\* followed by its name, and by "/" for a directory
C10_PathIsParentPlusName ==
  Quiescent =>
    \A E \in entity :
      E.path # Root =>
        E.path = E.parentPath \o E.name \o (IF E.isLeaf THEN <<>> ELSE Slash)

\* ------------------------------------------------------- the tree ops, one by one
\* C11: when the add of renameFile's new row meets an entity that already has
\* the new name under the same parent, the rename ends rejected and a leaf
\* other than that entity still carries the renamed file's content
C11_RenameExistsAtomic ==
  [][\A a \in Actors :
       LET p == proc[a]
           taken == {r \in entity : r.parentPath = p.parent.path /\ r.name = p.name}
       IN (/\ p.st = "addFileEntity.add"
           /\ p.inner = "renameFile"
           /\ proc'[a].st # p.st
           /\ taken # {}) =>
            /\ proc'[a].out = "rej"
            /\ taken \subseteq entity'
            /\ \A r \in taken : ContentGet(content', r.path) = ContentGet(content, r.path)
            /\ \E E \in entity' \ taken :
                 E.isLeaf /\ ContentHas(content', E.path)
                          /\ ContentGet(content', E.path) = p.body]_vars

\* ---------------------------------------------------------------- pruning
\* C12: every entry of an operator into awaitingCommand raises
\* pruneExpiredLocks: the pruner region of that actor, if idle, moves to
\* pruning in the same step
C12_AwaitingRaisesPrune ==
  [][\A a \in Actors :
       (proc[a].st = "settled" /\ proc'[a].st = "awaitingCommand"
          /\ pruner[a].st = "idle") => pruner'[a].st = "pruning"]_vars

\* C13: when a run of pruneExpiredLocks completes, no row of the lock store
\* has an expiry at or before the Date.now() at which the run read the
\* expiry index
C13_PruneLeavesNoExpired ==
  [][\A a \in Actors :
       (pruner[a].st # "idle" /\ pruner'[a].st = "idle") =>
         LET t == IF pruner[a].st = "pruning" THEN now ELSE pruner[a].at
         IN \A l \in lock' : l.expiry > t]_vars

\* every run of the pruner has completed and one of them deleted the expired
\* row of an actor that is still inside its command
C13_Witness ==
  /\ \A a \in Actors : pruner[a].st = "idle"
  /\ nprune > 0
  /\ \E b \in Actors :
       /\ proc[b].st \notin {"settled", "awaitingCommand"}
       /\ proc[b].lockId # NoPath
       /\ ~LockHas(lock, proc[b].lockId)

\* ------------------------------------------------------ replies and dispatch
\* the promise invoked for a's command can no longer settle: a success
\* handler threw before it called res or rej, so neither onDone nor onError
\* is ever taken and no reply is sent
NeverSettles(a) == proc[a].via = "operator" /\ proc[a].st = "unsettled"

\* C14: every command an actor accepted at awaitingCommand gets its one
\* reply: no accepted command is in a state from which no reply can come
C14_EveryCommandReplies == \A a \in Actors : ~NeverSettles(a)

\* C15: a command is accepted only by an actor in awaitingCommand; an
\* uninitialized actor has no command and owns no lock row, and no actor owns
\* more than one lock row
C15_OneCommandAtATime ==
  /\ [](\A a \in Actors :
          /\ Cardinality(OwnRows(a)) <= 1
          /\ Uninitialized(a) => (proc[a].cmd = "none" /\ OwnRows(a) = {}))
  /\ [][\A a \in Actors :
          proc[a].st # "awaitingCommand" =>
            ~(ncmd' # ncmd /\ proc'[a] # proc[a])]_vars

\* an actor holds the lock of its command in flight while the other actor
\* is uninitialized
C15_Witness ==
  \E a, b \in Actors :
    /\ a # b
    /\ Uninitialized(b)
    /\ proc[a].via = "operator" /\ proc[a].checked
    /\ OwnRows(a) # {}

\* ------------------------------------------------------------- round trips
FileG == <<"/", "g">>

\* one host that sends createFile and, when that is answered, readFileByPath
\* of the path the new file gets
RoundTripCommand(a) ==
  \/ /\ proc[a].reply = "none"
     /\ AwaitingCommand(a, {Cmd("createFile", Root, <<"g">>, "x")})
  \/ /\ proc[a].reply \in {"createFileSuccess", "createFileFailure"}
     /\ AwaitingCommand(a, {Cmd("readFileByPath", FileG, <<>>, NoBody)})

\* the seeded tree has no "/g" and createFile adds none, so the commands of
\* this host reach no tree op
NextRoundTrip ==
  \/ RoundTripCommand(Caller)
  \/ ResolveEntity(Caller)
  \/ LockPath(Caller)
  \/ RejectGetEntities(Caller)
  \/ RejectReadLocks(Caller)
  \/ CreateFileSecondTry(Caller)
  \/ RemoveLock(Caller)
  \/ Reply(Caller)
  \/ \E a \in Actors : PrunerStep(a)
  \/ Tick

SpecRoundTrip == Init /\ [][NextRoundTrip]_vars

\* C16: createFile of a valid name with a body under an existing directory,
\* followed by readFileByPath of the new file's path, ends in readFileSuccess
\* with the body given to createFile
C16_CreateThenRead ==
  (proc[Caller].cmd = "readFileByPath" /\ proc[Caller].st = "settled") =>
    (proc[Caller].out = "res" /\ proc[Caller].cont = "x")

\* C17: the cursor of emptyDirectory on p deletes exactly the entities whose
\* path lies strictly under p, p itself stays and has no child left; the
\* last step deletes the content rows of the deleted leaves and no other
\* row, and the call resolves
C17_EmptyDirectory ==
  [][\A a \in Actors :
       LET p == proc[a]
       IN /\ (p.st = "emptyDirectory.openCursor" /\ proc'[a].st # p.st) =>
               /\ entity' = {r \in entity :
                               ~(StartsWith(r.path, p.arg) /\ r.path # p.arg)}
               /\ \E r \in entity' : r.path = p.arg
               /\ ChildKeys(entity', p.arg) = {}
          /\ (p.st = "emptyDirectory.deleteContentRecord" /\ proc'[a].st # p.st) =>
               /\ proc'[a].out = "res"
               /\ entity' = entity
               /\ content' = {c \in content :
                                \A i \in 1..Len(p.paths) : c.leafPath # p.paths[i]}]_vars

\* the directory a call of deleteDirectoryIfEmpty in flight is aimed at
DeleteTarget(a) ==
  CASE proc[a].st = "deleteDirectoryIfEmpty.getEntity" ->
         Normalize(proc[a].arg, CwdPieces(a))
    [] proc[a].st = "deleteDirectoryIfEmpty.count" -> proc[a].file.path
    [] OTHER -> proc[a].arg

\* C18: a deleteDirectoryIfEmpty aimed at the root, or at a path that the
\* caller's cwd begins with, never reaches its delete, changes no entity row
\* and ends rejected
C18_DeleteRootOrCwdRejected ==
  [][\A a \in Actors :
       (/\ proc[a].cmd = "deleteDirectoryIfEmpty"
        /\ proc[a].st # "awaitingCommand"
        /\ DeleteTarget(a) # NoPath
        /\ (DeleteTarget(a) = Root \/ StartsWith(proc[a].cwd, DeleteTarget(a)))) =>
         /\ entity' = entity
         /\ proc'[a].st # "deleteDirectoryIfEmpty.deleteEntity"
         /\ proc'[a].st = "awaitingCommand" => proc'[a].out = "rej"]_vars

\* a call aimed at the empty directory the caller's cwd names has ended
\* rejected, the directory still there
C18_Witness ==
  /\ proc[Caller].cmd = "deleteDirectoryIfEmpty"
  /\ proc[Caller].st = "awaitingCommand"
  /\ proc[Caller].out = "rej"
  /\ proc[Caller].cwd = DirA
  /\ \E r \in entity : r.path = DirA /\ ~r.isLeaf
  /\ ChildKeys(entity, DirA) = {}

DirAB == <<"/", "a", "/", "b", "/">>

\* one host that sends createDirectoryUnderPath and, when that is answered,
\* deleteDirectoryIfEmptyByPath of the directory it created
DirectoryRoundTripCommand(a) ==
  \/ /\ proc[a].reply = "none"
     /\ AwaitingCommand(a, {Cmd("createDirectoryUnderPath", DirA, <<"b">>, NoBody)})
  \/ /\ proc[a].reply \in {"createDirectorySuccess", "createDirectoryFailure"}
     /\ AwaitingCommand(a, {Cmd("deleteDirectoryIfEmptyByPath", DirAB, <<>>, NoBody)})

NextDirectoryRoundTrip ==
  \/ DirectoryRoundTripCommand(Caller)
  \/ ResolveEntity(Caller)
  \/ LockPath(Caller)
  \/ RejectGetEntities(Caller)
  \/ RejectReadLocks(Caller)
  \/ AddDirectoryGetParent(Caller)
  \/ AddDirectoryAdd(Caller)
  \/ DeleteDirGet(Caller)
  \/ DeleteDirCount(Caller)
  \/ DeleteDirEntity(Caller)
  \/ RemoveLock(Caller)
  \/ Reply(Caller)
  \/ \E a \in Actors : PrunerStep(a)
  \/ Tick

SpecDirectoryRoundTrip == Init /\ [][NextDirectoryRoundTrip]_vars

\* the rows of an entity store without their timestamps
WithoutTimes(store) ==
  {[path |-> r.path, name |-> r.name, isLeaf |-> r.isLeaf,
    parentPath |-> r.parentPath] : r \in store}

ChangeDirectoryInputs ==
  { DirA, FileF, <<"/", "b", "/">>, <<"a", "/">>, <<".", ".">> }

\* the operator enters changeDirectoryByPath with evt.data.newDirectoryPath
ChangeDirectoryEvent(a) ==
  /\ proc[a].st = "awaitingCommand"
  /\ ncmd < MaxCmds
  /\ \E t \in ChangeDirectoryInputs :
       SetProc(a, [IdleProc EXCEPT !.st = "changeDirectoryByPath",
                     !.cmd = "changeDirectoryByPath", !.via = "operator",
                     !.cwd = proc[a].cwd, !.path = t, !.out = "pending"])
  /\ ncmd' = ncmd + 1
  /\ UNCHANGED <<entity, content, lock, now, pruner, nprune, twin>>

\* a changeDirectoryByPath without the isLeaf test
ChangeDirectoryToLeaf(a) ==
  LET p == proc[a]
      n == Normalize(p.path, CwdPieces(a))
      r == EntityGet(entity, n)
  IN /\ p.st = "changeDirectoryByPath"
     /\ IF n = NoPath \/ r = NoEntity
        THEN SetProc(a, [Leave(p) EXCEPT !.out = Rej(@),
                           !.st = "changeDirectoryByPath.settled"])
        ELSE SetProc(a, [Leave(p) EXCEPT !.out = Res(@), !.arg = r.path,
                           !.st = "changeDirectoryByPath.settled"])
     /\ UNCHANGED <<entity, content, lock, now, pruner, ncmd, nprune, twin>>

\* the invoked promise of changeDirectoryByPath: getEntityByPath, then
\* rej() for a leaf (the res() that follows it is ignored), else
\* res(entity.path)
ChangeDirectoryByPath(a) ==
  LET p == proc[a]
      n == Normalize(p.path, CwdPieces(a))
      r == EntityGet(entity, n)
  IN /\ p.st = "changeDirectoryByPath"
     /\ IF n = NoPath \/ r = NoEntity
        THEN SetProc(a, [Leave(p) EXCEPT !.out = Rej(@),
                           !.st = "changeDirectoryByPath.settled"])
        ELSE SetProc(a, [Leave(p) EXCEPT
                           !.out = IF r.isLeaf THEN Rej(@) ELSE Res(@),
                           !.arg = r.path,
                           !.st = "changeDirectoryByPath.settled"])
     /\ UNCHANGED <<entity, content, lock, now, pruner, ncmd, nprune, twin>>

\* onDone: assign cwd = evt.data and send changeDirectorySuccess; onError:
\* send changeDirectoryFailure
ChangeDirectoryDone(a) ==
  LET p == proc[a]
  IN /\ p.st = "changeDirectoryByPath.settled"
     /\ SetProc(a, [IdleProc EXCEPT
                      !.cwd = IF p.out = "res" THEN p.arg ELSE p.cwd,
                      !.reply = IF p.out = "res" THEN "changeDirectorySuccess"
                                ELSE "changeDirectoryFailure"])
     /\ UNCHANGED <<entity, content, lock, now, pruner, ncmd, nprune, twin>>

ChangeDirectoryStep(a) ==
  \/ ChangeDirectoryEvent(a)
  \/ ChangeDirectoryByPath(a)
  \/ ChangeDirectoryDone(a)

\* actors that change directory while one of them runs the other commands
NextChangeDirectory ==
  \/ \E a \in Actors : ChangeDirectoryStep(a)
  \/ OperatorStep(Caller)
  \/ TreeOpStep(Caller)

SpecChangeDirectory == Init /\ [][NextChangeDirectory]_vars

\* what getEntityByPath finds for the target of the changeDirectoryByPath
\* that actor a is running
ChangeDirectoryTarget(a) ==
  EntityGet(entity, Normalize(proc[a].path, CwdPieces(a)))

AbsoluteInputs ==
  { Call("addFileEntity", Root, NoPath, <<"g">>, "y"),
    Call("addDirectoryEntity", DirA, NoPath, <<"b">>, NoBody),
    Call("renameFile", FileF, NoPath, <<"g">>, NoBody),
    Call("deleteLeafEntity", FileF, NoPath, <<>>, NoBody),
    Call("deleteDirectoryIfEmpty", DirA, NoPath, <<>>, NoBody),
    Call("emptyDirectory", Root, NoPath, <<>>, NoBody),
    Call("updateFile", FileF, NoPath, <<>>, "y"),
    Call("reparentLeaf", FileF, DirA, <<>>, NoBody),
    Call("transplantAncestors", DirA, Root, <<>>, NoBody) }

\* the working directories of the first and of the second run
FirstCwd == Root
SecondCwd == DirA

\* the first run starts on the seeded database, from FirstCwd
InitTwoRuns ==
  /\ entity = SeedEntity
  /\ content = SeedContent
  /\ lock = {}
  /\ now = 0
  /\ proc = [a \in Actors |-> [IdleProc EXCEPT !.cwd = FirstCwd]]
  /\ pruner = [a \in Actors |-> IdlePruner]
  /\ ncmd = 0
  /\ nprune = 0
  /\ twin = [NoTwin EXCEPT !.run = 1]

\* the first run calls an exported function; the call is written down
FirstRunCall(a) ==
  /\ twin.run = 1
  /\ proc[a].st = "awaitingCommand"
  /\ Len(twin.calls) < MaxCalls
  /\ \E c \in AbsoluteInputs :
       /\ SetProc(a, [IdleProc EXCEPT !.st = LibEntry(c.op), !.cmd = c.op,
                        !.via = "direct", !.cwd = proc[a].cwd, !.arg = c.path,
                        !.path = c.other, !.name = c.name, !.body = c.body,
                        !.out = "pending"])
       /\ twin' = [twin EXCEPT !.calls = Append(@, c)]
  /\ UNCHANGED <<entity, content, lock, now, pruner, ncmd, nprune>>

\* the first run has ended: its stores are kept aside and the second run
\* starts on the seeded database, from SecondCwd
SecondRun(a) ==
  /\ twin.run = 1
  /\ proc[a].st = "awaitingCommand"
  /\ twin.calls # <<>>
  /\ twin' = [twin EXCEPT !.run = 2, !.next = 1, !.entity = entity,
                          !.content = content]
  /\ entity' = SeedEntity
  /\ content' = SeedContent
  /\ SetProc(a, [IdleProc EXCEPT !.cwd = SecondCwd])
  /\ UNCHANGED <<lock, now, pruner, ncmd, nprune>>

\* the second run makes the calls of the first one, in their order
SecondRunCall(a) ==
  /\ twin.run = 2
  /\ proc[a].st = "awaitingCommand"
  /\ twin.next <= Len(twin.calls)
  /\ LET c == twin.calls[twin.next]
     IN SetProc(a, [IdleProc EXCEPT !.st = LibEntry(c.op), !.cmd = c.op,
                      !.via = "direct", !.cwd = proc[a].cwd, !.arg = c.path,
                      !.path = c.other, !.name = c.name, !.body = c.body,
                      !.out = "pending"])
  /\ twin' = [twin EXCEPT !.next = @ + 1]
  /\ UNCHANGED <<entity, content, lock, now, pruner, ncmd, nprune>>

TwoRunsStep(a) ==
  \/ FirstRunCall(a)
  \/ SecondRun(a)
  \/ SecondRunCall(a)
  \/ AddDirectoryGetParent(a)
  \/ AddDirectoryAdd(a)
  \/ AddFileGetParent(a)
  \/ AddFileAdd(a)
  \/ AddFilePutContent(a)
  \/ RenameGetFile(a)
  \/ RenameGetParent(a)
  \/ RenameDeleteEntity(a)
  \/ RenameGetContent(a)
  \/ RenameDeleteContent(a)
  \/ DeleteLeafGet(a)
  \/ DeleteLeafEntity(a)
  \/ DeleteLeafContent(a)
  \/ DeleteDirGet(a)
  \/ DeleteDirCount(a)
  \/ DeleteDirEntity(a)
  \/ EmptyDirGet(a)
  \/ EmptyDirCount(a)
  \/ EmptyDirCursor(a)
  \/ EmptyDirContent(a)
  \/ UpdateFileGet(a)
  \/ UpdateFileContent(a)
  \/ UpdateTimestampGet(a)
  \/ UpdateTimestampUpdate(a)
  \/ ReparentGet(a)
  \/ ReparentCursor(a)
  \/ TransplantAncestors(a)

NextTwoRuns == TwoRunsStep(Caller)

\* one program runs a script of calls twice, from two working directories
SpecTwoRuns == InitTwoRuns /\ [][NextTwoRuns]_vars

\* the stored paths and parentPaths of an entity store
PathsOf(store) == {[path |-> r.path, parentPath |-> r.parentPath] : r \in store}

\* both runs have made every call of the script and the last one has returned
BothRunsDone ==
  /\ twin.run = 2
  /\ twin.next > Len(twin.calls)
  /\ proc[Caller].st = "awaitingCommand"

\* is call c a deleteDirectoryIfEmpty of the directory cwd or of one above it
DeletesAbove(c, cwd) ==
  c.op = "deleteDirectoryIfEmpty" /\ StartsWith(cwd, c.path)

\* C22 (as stated): two runs of one script of calls with absolute targets,
\* from two working directories, end with the same stored paths, parentPaths
\* and contents
C22_StoresIndependentOfCwd ==
  BothRunsDone => PathsOf(entity) = PathsOf(twin.entity) /\ content = twin.content

\* C22 (amended): two runs of one script of calls with absolute targets, none
\* of them a deleteDirectoryIfEmpty of the working directory of a run or of
\* a directory above it, end with the same stored paths, parentPaths and
\* contents
C22_StoresIndependentOfCwdUnlessDeleted ==
  (/\ BothRunsDone
   /\ \A i \in 1..Len(twin.calls) :
        ~DeletesAbove(twin.calls[i], FirstCwd) /\ ~DeletesAbove(twin.calls[i], SecondCwd))
  => PathsOf(entity) = PathsOf(twin.entity) /\ content = twin.content

\* both runs have ended, their script had no such deleteDirectoryIfEmpty and
\* it has changed the stores: /f is gone and /a/f is stored in both
C22_Witness ==
  /\ BothRunsDone
  /\ \A i \in 1..Len(twin.calls) :
       ~DeletesAbove(twin.calls[i], FirstCwd) /\ ~DeletesAbove(twin.calls[i], SecondCwd)
  /\ PathsOf(entity) # PathsOf(SeedEntity)
  /\ PathsOf(entity) = PathsOf(twin.entity)
  /\ content # SeedContent
  /\ content = twin.content

\* C23: the seeding of an actor that finds the root row already stored ends
\* in initialized, with the operator in awaitingCommand, and leaves the
\* entity store as it was
C23_SeededRootIsSuccess ==
  [][\A a \in Actors :
       (/\ proc[a].st = "uninitialized.seeding"
        /\ proc'[a] # proc[a]
        /\ \E r \in entity : r.path = Root)
       => (proc'[a].st = "awaitingCommand" /\ entity' = entity)]_vars

\* -------------------------------------------------------------------- close
\* a close that does not send stopLockPruningService: the operator region is
\* in its final state and the pruner region is not, so initialized is not done
CloseOperatorOnly(a) ==
  /\ proc[a].st = "awaitingCommand"
  /\ SetProc(a, [IdleProc EXCEPT !.st = "close", !.cwd = proc[a].cwd])
  /\ UNCHANGED <<entity, content, lock, now, pruner, ncmd, nprune, twin>>

\* awaitingCommand on close: the entry of the final state close sends
\* stopLockPruningService and closes the database handle; the event takes the
\* lockTablePruner region to done from whichever state it is in, initialized
\* is done and its onDone goes to uninitialized with fsName: null.  All of it
\* happens in one task of the event loop.  cwd stays in the context.  The
\* delete transactions a running pruneExpiredLocks has created already are
\* not withdrawn by db.close()
Close(a) ==
  /\ proc[a].st = "awaitingCommand"
  /\ SetProc(a, [NewProc EXCEPT !.cwd = proc[a].cwd])
  /\ pruner' = [pruner EXCEPT ![a].st = "done"]
  /\ UNCHANGED <<entity, content, lock, now, ncmd, nprune, twin>>

\* a delete transaction of pruneExpiredLocks that was created before the
\* close of its connection
PruneDeleteQueued(a) ==
  /\ pruner[a].st = "done"
  /\ \E k \in pruner[a].keys :
       /\ lock' = LockDelete(lock, k)
       /\ pruner' = [pruner EXCEPT ![a].keys = @ \ {k}]
  /\ UNCHANGED <<entity, content, now, proc, ncmd, nprune, twin>>

\* actors that close while their pruners run and one of them runs commands
NextClose ==
  \/ \E a \in Actors : Close(a)
  \/ \E a \in Actors : PruneDeleteQueued(a)
  \/ \E a \in Actors : BootStep(a)
  \/ \E a \in Actors : PrunerStep(a)
  \/ OperatorStep(Caller)
  \/ TreeOpStep(Caller)
  \/ Tick

SpecClose == Init /\ [][NextClose]_vars

\* the step in which actor a takes a close event
CloseAccepted(a) ==
  /\ proc[a].st = "awaitingCommand"
  /\ proc'[a].st \in {"close", "uninitialized.idle"}

\* C24: a close taken in awaitingCommand leaves the pruner region stopped,
\* whatever it was doing, and the actor in uninitialized.idle with no fsName;
\* a stopped pruner takes no pruneExpiredLocks event and an actor in
\* uninitialized.idle takes init
C24_CloseReturnsToUninitialized ==
  /\ [](\A a \in Actors :
          /\ proc[a].st = "uninitialized.idle" => ENABLED InitEvent(a)
          /\ pruner[a].st = "done" => ~ENABLED PruneEvent(a) /\ ~ENABLED PruneRead(a))
  /\ [][\A a \in Actors :
          CloseAccepted(a) =>
            /\ proc'[a].st = "uninitialized.idle"
            /\ proc'[a].fsName = NoFsName
            /\ pruner'[a].st = "done"]_vars

\* an actor has closed while its pruner was in pruning, and has taken an init
\* after it
C24_Witness ==
  \E a \in Actors :
    /\ pruner[a].st = "done"
    /\ nprune > 0
    /\ pruner[a].keys # {}
    /\ proc[a].st = "uninitialized.initializing"

\* ------------------------------------------------------ backup and restore
\* JSON.stringify of a stored value: null, or a string / number / boolean
JsonNull == <<"null">>
JsonOf(kind, v) == <<kind, v>>

\* the JSON text of an entity row; parentPath is null for the root
StringifyEntity(r) ==
  [path |-> JsonOf("string", r.path), name |-> JsonOf("string", r.name),
   isLeaf |-> JsonOf("boolean", r.isLeaf),
   parentPath |-> IF r.parentPath = NoPath THEN JsonNull
                  ELSE JsonOf("string", r.parentPath),
   createdAt |-> JsonOf("number", r.createdAt),
   updatedAt |-> JsonOf("number", r.updatedAt)]

StringifyContent(c) ==
  [leafPath |-> JsonOf("string", c.leafPath),
   content |-> IF c.content = NoBody THEN JsonNull
               ELSE JsonOf("string", c.content)]

\* JSON.parse of a value
ParseValue(j, null) == IF j = JsonNull THEN null ELSE j[2]

ParseEntity(j) ==
  [path |-> ParseValue(j.path, NoPath), name |-> ParseValue(j.name, NoPath),
   isLeaf |-> ParseValue(j.isLeaf, FALSE),
   parentPath |-> ParseValue(j.parentPath, NoPath),
   createdAt |-> ParseValue(j.createdAt, 0),
   updatedAt |-> ParseValue(j.updatedAt, 0)]

ParseContent(j) ==
  [leafPath |-> ParseValue(j.leafPath, NoPath),
   content |-> ParseValue(j.content, NoBody)]

\* getAll() of a store, as an array
GetAll(store) == SetToSeq(store)

NoBackup == [entity |-> <<>>, content |-> <<>>, lock |-> <<>>]

\* the backup a host holds, the stores as they were when it was taken, and
\* the database restoredFs
NoRestored ==
  [backup |-> NoBackup, source |-> [entity |-> {}, content |-> {}],
   exists |-> FALSE, entity |-> {}, content |-> {}, lock |-> {}]

InitBackup ==
  /\ entity = SeedEntity
  /\ content = SeedContent
  /\ lock = {}
  /\ now = 0
  /\ proc = [a \in Actors |-> IdleProc]
  /\ pruner = [a \in Actors |-> IdlePruner]
  /\ ncmd = 0
  /\ nprune = 0
  /\ twin = NoRestored

\* ripFilesystemToJSON in awaitingCommand: read all of entity, content and
\* lock into arrays and reply with the JSON string {entity, content, lock}
RipFilesystemToJSON(a) ==
  /\ proc[a].st = "awaitingCommand"
  /\ twin' = [twin EXCEPT
       !.backup = [entity |-> [i \in 1..Cardinality(entity) |->
                                 StringifyEntity(GetAll(entity)[i])],
                   content |-> [i \in 1..Cardinality(content) |->
                                  StringifyContent(GetAll(content)[i])],
                   lock |-> GetAll(lock)],
       !.source = [entity |-> entity, content |-> content]]
  /\ SetProc(a, [proc[a] EXCEPT !.reply = "ripFilesystemToJSONSuccess"])
  /\ UNCHANGED <<entity, content, lock, now, pruner, ncmd, nprune>>

\* put() of every row of an array into a store with key k
RECURSIVE PutAll(_, _, _)
PutAll(rows, store, k) ==
  IF rows = <<>> THEN store
  ELSE PutAll(Tail(rows),
              {r \in store : r[k] # Head(rows)[k]} \cup {Head(rows)}, k)

\* a restore that writes the entity rows of the backup and nothing else
RestoreEntitiesOnly(a) ==
  /\ proc[a].st = "uninitialized.idle"
  /\ twin.backup # NoBackup
  /\ IF twin.exists
     THEN /\ SetProc(a, [proc[a] EXCEPT !.reply = "restoreFilesystemFromJSONFailure"])
          /\ UNCHANGED twin
     ELSE /\ twin' = [twin EXCEPT !.exists = TRUE,
               !.entity = PutAll([i \in 1..Len(twin.backup.entity) |->
                                    ParseEntity(twin.backup.entity[i])], {}, "path")]
          /\ SetProc(a, [proc[a] EXCEPT !.reply = "restoreFilesystemFromJSONSuccess"])
  /\ UNCHANGED <<entity, content, lock, now, pruner, ncmd, nprune>>

\* restoreFilesystemFromJSON(fsName, version, backup) in uninitialized.idle:
\* refused if the database exists; else the database is created with the
\* schema and every record of the backup is put
RestoreFilesystemFromJSON(a) ==
  /\ proc[a].st = "uninitialized.idle"
  /\ twin.backup # NoBackup
  /\ IF twin.exists
     THEN /\ SetProc(a, [proc[a] EXCEPT !.reply = "restoreFilesystemFromJSONFailure"])
          /\ UNCHANGED twin
     ELSE /\ twin' = [twin EXCEPT !.exists = TRUE,
               !.entity = PutAll([i \in 1..Len(twin.backup.entity) |->
                                    ParseEntity(twin.backup.entity[i])], {}, "path"),
               !.content = PutAll([i \in 1..Len(twin.backup.content) |->
                                     ParseContent(twin.backup.content[i])], {}, "leafPath"),
               !.lock = PutAll(twin.backup.lock, {}, "pathPrefix")]
          /\ SetProc(a, [proc[a] EXCEPT !.reply = "restoreFilesystemFromJSONSuccess"])
  /\ UNCHANGED <<entity, content, lock, now, pruner, ncmd, nprune>>


\* a host that runs commands, takes a backup, closes and restores it
NextBackup ==
  \/ OperatorStep(Caller)
  \/ TreeOpStep(Caller)
  \/ RipFilesystemToJSON(Caller)
  \/ Close(Caller)
  \/ RestoreFilesystemFromJSON(Caller)

SpecBackup == InitBackup /\ [][NextBackup]_vars

\* the records of an array, with the number of times each occurs
Multiset(rows) ==
  [x \in {rows[i] : i \in 1..Len(rows)} |->
     Cardinality({i \in 1..Len(rows) : rows[i] = x})]

C26_TreeOpOnlyAfterLockAndCheck ==
  [][\A a \in Actors :
       LET p == proc[a]
       IN /\ (/\ p.via = "operator"
              /\ proc'[a] # p
              /\ entity' # entity \/ content' # content)
             => (p.lockId # NoPath /\ p.checked /\ p.err = "none")
          /\ (p.st = "settled" /\ p.err # "none" /\ proc'[a] # p)
             => proc'[a].reply = ReplyName(p.cmd, FALSE)]_vars

\* a rename whose lock acquisition failed has settled while the command of
\* the other actor, which holds the lock, is in its tree op; and no row of
\* the stores has changed
C26_Witness ==
  \E a, b \in Actors :
    /\ proc[a].st = "settled"
    /\ proc[a].cmd = "renameFileByPath"
    /\ proc[a].err = "Contended"
    /\ proc[b].checked
    /\ entity = SeedEntity
    /\ content = SeedContent

\* C27: the release in the finally block of a command of actor a deletes no
\* lock row that another actor holds
C27_ReleaseDeletesOwnRowOnly ==
  [][\A a \in Actors :
       (proc[a].st = "finally" /\ proc'[a] # proc[a])
       => \A l \in lock \ lock' : l.owner = a]_vars

\* C28: every lock row a delete of pruneExpiredLocks removes has expired by
\* the time it is removed
C28_PrunedRowsHaveExpired ==
  [][\A a \in Actors :
       (pruner[a].st = "deleting" /\ pruner'[a] # pruner[a])
       => \A l \in lock \ lock' : l.expiry <= now]_vars

\* C29: whenever a command in its tree-op phase changes the entity or the
\* content store, the lock store holds a row for the prefix the command
\* acquired
C29_WritesUnderLockRow ==
  [][\A a \in Actors :
       (/\ InTreeOp(a)
        /\ proc'[a] # proc[a]
        /\ entity' # entity \/ content' # content)
       => \E l \in lock : l.pathPrefix = proc[a].lockId]_vars

\* -------------------------------------------------------- the overlap check
\* the tree of the callers of the overlap check: the seeded one and /a/b/
OverlapEntity ==
  SeedEntity \cup
    {[path |-> DirAB, name |-> <<"b">>, isLeaf |-> FALSE, parentPath |-> DirA,
      createdAt |-> 0, updatedAt |-> 0]}

\* the paths the program locks
LockInputs == {Root, DirA, DirAB, FileF}

\* the other actor holds rows on some of the paths, acquired at time 0
InitOverlapCheck ==
  /\ entity = OverlapEntity
  /\ content = SeedContent
  /\ \E held \in SUBSET LockInputs :
       lock = {[pathPrefix |-> n, expiry |-> DefaultDurationMs, createdAt |-> 0,
                owner |-> "B"] : n \in held}
  /\ now = 0
  /\ proc = [a \in Actors |-> IdleProc]
  /\ pruner = [a \in Actors |-> IdlePruner]
  /\ ncmd = 0
  /\ nprune = 0
  /\ twin = NoTwin

\* a program calls lockPath(db, cwd, path, durationMs) and keeps the prefix
\* it is given; Contended leaves it with the prefixes it had
DirectLockPath(a) ==
  /\ proc[a].st = "awaitingCommand"
  /\ ncmd < MaxCalls
  /\ ncmd' = ncmd + 1
  /\ \E path \in LockInputs :
       LET n == Normalize(path, CwdPieces(a))
       IN IF n = NoPath \/ LockHas(lock, n)
          THEN UNCHANGED <<lock, proc>>
          ELSE /\ lock' = lock \cup {[pathPrefix |-> n,
                                      expiry |-> now + DefaultDurationMs,
                                      createdAt |-> now, owner |-> a]}
               /\ SetProc(a, [proc[a] EXCEPT !.refs = Append(@, n)])
  /\ UNCHANGED <<entity, content, now, pruner, nprune, twin>>

\* the program calls rejectIfConflictingLockPathPrefixes(db, cwd, refs):
\* getEntity of every reference path
DirectRejectGetEntities(a) ==
  LET p == proc[a]
      ns == [i \in 1..Len(p.refs) |-> Normalize(p.refs[i], CwdPieces(a))]
      rs == [i \in 1..Len(p.refs) |-> EntityGet(entity, ns[i])]
  IN /\ p.st = "awaitingCommand"
     /\ p.refs # <<>>
     /\ IF \E i \in 1..Len(p.refs) : ns[i] = NoPath \/ rs[i] = NoEntity
        THEN SetProc(a, [IdleProc EXCEPT !.cwd = p.cwd, !.out = "rej",
                                         !.err = "NotFound"])
        ELSE SetProc(a, [p EXCEPT !.cmd = "rejectIfConflictingLockPathPrefixes",
                           !.via = "direct", !.out = "pending",
                           !.paths = [i \in 1..Len(p.refs) |-> rs[i].path],
                           !.st = "rejectIfConflicting.getAll"])
     /\ UNCHANGED <<entity, content, lock, now, pruner, ncmd, nprune, twin>>

\* the second half: the unexpired rows are read and the conflicts counted;
\* the promise rejects when the count is not 0
DirectRejectReadLocks(a) ==
  LET p == proc[a]
  IN /\ p.st = "rejectIfConflicting.getAll"
     /\ p.via = "direct"
     /\ SetProc(a, [IdleProc EXCEPT !.cwd = p.cwd, !.cmd = p.cmd,
                      !.out = IF Conflicts(p.paths, UnexpiredLocks(lock, now)) # 0
                              THEN "rej" ELSE "res",
                      !.err = IF Conflicts(p.paths, UnexpiredLocks(lock, now)) # 0
                              THEN "Conflict" ELSE "none"])
     /\ UNCHANGED <<entity, content, lock, now, pruner, ncmd, nprune, twin>>

NextOverlapCheck ==
  \/ DirectLockPath(Caller)
  \/ DirectRejectGetEntities(Caller)
  \/ DirectRejectReadLocks(Caller)
  \/ Tick

\* a program that acquires prefixes and calls the overlap check on them
SpecOverlapCheck == InitOverlapCheck /\ [][NextOverlapCheck]_vars

\* some unexpired row other than the acquired ones has a pathPrefix that is a
\* prefix of one of the acquired paths
OtherRowIsPrefix(paths, rows, t) ==
  \E l \in {x \in rows : x.expiry >= t} :
    /\ \A i \in 1..Len(paths) : paths[i] # l.pathPrefix
    /\ \E i \in 1..Len(paths) : StartsWith(paths[i], l.pathPrefix)

\* C30: the overlap check rejects exactly when some other unexpired row has a
\* pathPrefix that is a prefix of one of the acquired paths, wherever that
\* path is in the list
C30_RejectsIffOtherRowIsPrefix ==
  [][\A a \in Actors :
       (/\ proc[a].st = "rejectIfConflicting.getAll"
        /\ proc[a].via = "direct"
        /\ proc'[a] # proc[a])
       => (proc'[a].out = "rej" <=> OtherRowIsPrefix(proc[a].paths, lock, now))]_vars

\* ------------------------------------------------------------ lockPath alone
\* a lifetime shorter than one step of the clock
ShortDurationMs == 1

\* a program calls lockPath(db, cwd, path, durationMs)
CallLockPath(a) ==
  /\ proc[a].st = "awaitingCommand"
  /\ ncmd < MaxCalls
  /\ ncmd' = ncmd + 1
  /\ \E c \in {Root, FileF, <<"f">>} \X {ShortDurationMs, DefaultDurationMs} :
       SetProc(a, [IdleProc EXCEPT !.st = "lockPath.add", !.cmd = "lockPath",
                     !.via = "direct", !.cwd = proc[a].cwd, !.arg = c[1],
                     !.dur = c[2], !.out = "pending"])
  /\ UNCHANGED <<entity, content, lock, now, pruner, nprune, twin>>

\* a lockPath that follows the design note: when the row that is in the way
\* has expired, it is deleted and the add is tried once more
LockPathRetry(a) ==
  LET p == proc[a]
      n == Normalize(p.arg, CwdPieces(a))
      row == [pathPrefix |-> n, expiry |-> now + p.dur, createdAt |-> now,
              owner |-> a]
      stale == \E l \in lock : l.pathPrefix = n /\ l.expiry <= now
  IN /\ p.st = "lockPath.add"
     /\ IF n = NoPath \/ (LockHas(lock, n) /\ ~stale)
        THEN /\ SetProc(a, [IdleProc EXCEPT !.cwd = p.cwd, !.cmd = p.cmd,
                              !.arg = p.arg, !.out = "rej", !.err = "Contended"])
             /\ UNCHANGED lock
        ELSE /\ lock' = LockDelete(lock, n) \cup {row}
             /\ SetProc(a, [IdleProc EXCEPT !.cwd = p.cwd, !.cmd = p.cmd,
                              !.arg = p.arg, !.out = "res", !.lockId = n])
     /\ UNCHANGED <<entity, content, now, pruner, ncmd, nprune, twin>>

\* lockPath: one add() on the lock store; onerror rejects and that is all
LockPathAdd(a) ==
  LET p == proc[a]
      n == Normalize(p.arg, CwdPieces(a))
      row == [pathPrefix |-> n, expiry |-> now + p.dur, createdAt |-> now,
              owner |-> a]
  IN /\ p.st = "lockPath.add"
     /\ IF n = NoPath \/ LockHas(lock, n)
        THEN /\ SetProc(a, [IdleProc EXCEPT !.cwd = p.cwd, !.cmd = p.cmd,
                              !.arg = p.arg, !.out = "rej", !.err = "Contended"])
             /\ UNCHANGED lock
        ELSE /\ lock' = lock \cup {row}
             /\ SetProc(a, [IdleProc EXCEPT !.cwd = p.cwd, !.cmd = p.cmd,
                              !.arg = p.arg, !.out = "res", !.lockId = n])
     /\ UNCHANGED <<entity, content, now, pruner, ncmd, nprune, twin>>

NextLockPath ==
  \/ \E a \in Actors : CallLockPath(a)
  \/ \E a \in Actors : LockPathAdd(a)
  \/ \E a \in Actors : PrunerStep(a)
  \/ Tick

\* programs that call lockPath while the clock runs and the pruners prune
SpecLockPath == Init /\ [][NextLockPath]_vars

C32_JoinContentToLeafTotal ==
  [][\A a \in Actors :
       (/\ proc[a].st = "joinContentToLeaf"
        /\ proc'[a] # proc[a]
        /\ ~ContentHas(content, proc[a].e.path))
       => (/\ proc'[a].out = "res"
           /\ proc'[a].cont = NoBody
           /\ proc'[a].e = proc[a].e)]_vars

\* C33: the add step of addFileEntity and of addDirectoryEntity, when the
\* parent is a leaf or the name is not made of letters, digits, "_", "." and
\* "-", rejects and leaves the entity and the content store unchanged
C33_AddRejectsBadParentOrName ==
  [][\A a \in Actors :
       LET p == proc[a]
       IN (/\ p.st \in {"addFileEntity.add", "addDirectoryEntity.add"}
           /\ p.inner = "none"
           /\ proc'[a] # p
           /\ (p.parent.isLeaf \/ ~ValidName(p.name)))
          => (/\ proc'[a].out = "rej"
              /\ entity' = entity
              /\ content' = content)]_vars

\* C34: a renameFile whose target is a directory, whose new name is not made
\* of letters, digits, "_", "." and "-", or whose old content row is missing
\* rejects with the entity row of the old path still in the store and the
\* content store unchanged
C34_RenameRejectsBeforeDestroying ==
  [][\A a \in Actors :
       LET p == proc[a]
       IN (/\ p.st \in {"renameFile.delete", "renameFile.getContent"}
           /\ proc'[a].st # p.st
           /\ \/ ~p.file.isLeaf
              \/ ~ValidName(p.name)
              \/ ~ContentHas(content, p.file.path))
          => (/\ proc'[a].out = "rej"
              /\ p.file \in entity'
              /\ content' = content)]_vars

\* ------------------------------------------------------------- the updates
\* the update commands of a host, on the file and on the directory, and the
\* steps they take
NextUpdate ==
  \/ AwaitingCommand(Caller,
       { Cmd("updateFileContentByPath", FileF, <<>>, "y"),
         Cmd("updateFileContentByPath", DirA, <<>>, "y"),
         Cmd("updateFileTimestampByPath", FileF, <<>>, NoBody),
         Cmd("updateFileTimestampByPath", DirA, <<>>, NoBody) })
  \/ ResolveEntity(Caller)
  \/ LockPath(Caller)
  \/ RejectGetEntities(Caller)
  \/ RejectReadLocks(Caller)
  \/ UpdateFileGet(Caller)
  \/ UpdateFileContent(Caller)
  \/ UpdateTimestampGet(Caller)
  \/ UpdateTimestampUpdate(Caller)
  \/ RemoveLock(Caller)
  \/ Reply(Caller)
  \/ Tick

\* one host that sends update commands while the clock runs
SpecUpdate == Init /\ [][NextUpdate]_vars

\* C35: the cursor step of updateFileTimestamp, alone or inside updateFile,
\* on a path that resolved to a directory ends the call rejected and leaves
\* every entity row, updatedAt included, and every content row unchanged
C35_UpdateOfDirectoryFails ==
  [][\A a \in Actors :
       LET p == proc[a]
       IN (/\ p.st = "updateFileTimestamp.update"
           /\ proc'[a].st # p.st
           /\ ~p.file.isLeaf)
          => (/\ proc'[a].out = "rej"
              /\ entity' = entity
              /\ content' = content)]_vars

\* C39: the cursor step of an updateFileTimestamp on a leaf resolves and
\* changes nothing but the updatedAt of the row of that leaf, which does not
\* decrease: the other fields of the row, every other entity row and every
\* content row are as before
C39_TimestampOnly ==
  [][\A a \in Actors :
       LET p == proc[a]
           old == {r \in entity : r.path = p.file.path}
           new == {r \in entity' : r.path = p.file.path}
       IN (/\ p.st = "updateFileTimestamp.update"
           /\ proc'[a].st # p.st
           /\ p.file.isLeaf)
          => (/\ proc'[a].out = "res"
              /\ content' = content
              /\ entity' \ new = entity \ old
              /\ Cardinality(new) = Cardinality(old)
              /\ \A r \in old : \E r2 \in new :
                   /\ r2 = [r EXCEPT !.updatedAt = r2.updatedAt]
                   /\ r2.updatedAt >= r.updatedAt)]_vars

\* updateFileTimestampByPath of "/f" has been answered with success and the
\* row of "/f" carries a later updatedAt than its createdAt
C39_Witness ==
  /\ proc[Caller].reply = "updateFileTimestampSuccess"
  /\ \E r \in entity : r.path = FileF /\ r.isLeaf /\ r.updatedAt > r.createdAt
  /\ \A r \in entity : r.path # FileF => r.updatedAt = r.createdAt

\* C36: the cursor step of reparentLeaf of a leaf p to a directory other than
\* its parent resolves with the leaf at newParent.path + name, its parentPath
\* newParent.path, the content body it had at p keyed by the new path, and
\* neither an entity row nor a content row left at p
C36_ReparentMovesEntityAndContent ==
  [][\A a \in Actors :
       LET p == proc[a]
           newPath == p.parent.path \o p.file.name
       IN (/\ p.st = "reparentLeaf.openCursor"
           /\ proc'[a].st # p.st
           /\ p.file.isLeaf
           /\ ~p.parent.isLeaf
           /\ p.parent.path # p.file.parentPath
           /\ p.file \in entity
           /\ ContentHas(content, p.file.path))
          => (/\ proc'[a].out = "res"
              /\ \E r \in entity' :
                   r.path = newPath /\ r.isLeaf /\ r.parentPath = p.parent.path
              /\ ContentHas(content', newPath)
              /\ ContentGet(content', newPath) = ContentGet(content, p.file.path)
              /\ EntityGet(entity', p.file.path) = NoEntity
              /\ ~ContentHas(content', p.file.path))]_vars

\* ------------------------------------------------- the two-path commands
DirB == <<"/", "b", "/">>
FileAF == <<"/", "a", "/", "f">>

\* a tree with a file inside a directory and a second directory; the other
\* actor holds rows on some of the paths, acquired at time 0
InitTwoPath ==
  /\ entity =
       SeedEntity \cup
         { [path |-> DirB, name |-> <<"b">>, isLeaf |-> FALSE, parentPath |-> Root,
            createdAt |-> 0, updatedAt |-> 0],
           [path |-> FileAF, name |-> <<"f">>, isLeaf |-> TRUE, parentPath |-> DirA,
            createdAt |-> 0, updatedAt |-> 0] }
  /\ content = SeedContent \cup {[leafPath |-> FileAF, content |-> "y"]}
  /\ \E held \in SUBSET {Root, DirA, DirB, FileAF} :
       lock = {[pathPrefix |-> n, expiry |-> DefaultDurationMs, createdAt |-> 0,
                owner |-> "B"] : n \in held}
  /\ now = 0
  /\ proc = [a \in Actors |-> IdleProc]
  /\ pruner = [a \in Actors |-> IdlePruner]
  /\ ncmd = 0
  /\ nprune = 0
  /\ twin = NoTwin

\* the events of the two-path commands: (command, path or oldParentPath,
\* newParentPath)
TwoPathInputs ==
  { <<"transplantAncestorsByPath", DirA, DirB>>,
    <<"transplantAncestorsByPath", DirA, Root>>,
    <<"reparentFileByPath", FileAF, DirB>>,
    <<"reparentFileByPath", FileAF, DirA>>,
    <<"reparentFileByPath", FileF, DirA>> }

\* a two-path command event taken by awaitingCommand
TwoPathEvent(a) ==
  /\ proc[a].st = "awaitingCommand"
  /\ ncmd < MaxCmds
  /\ \E c \in TwoPathInputs :
       SetProc(a, [IdleProc EXCEPT !.st = "twoPath.getEntity", !.cmd = c[1],
                     !.via = "operator", !.cwd = proc[a].cwd, !.path = c[2],
                     !.arg = c[3], !.dur = DefaultDurationMs, !.out = "pending"])
  /\ ncmd' = ncmd + 1
  /\ UNCHANGED <<entity, content, lock, now, pruner, nprune, twin>>

\* const e = await getEntityByPath(db, cwd, path / oldParentPath)
TwoPathResolveSource(a) ==
  LET p == proc[a]
      n == Normalize(p.path, CwdPieces(a))
      r == EntityGet(entity, n)
  IN /\ p.st = "twoPath.getEntity"
     /\ IF n = NoPath \/ r = NoEntity
        THEN SetProc(a, Fail(p, "NotFound"))
        ELSE SetProc(a, [p EXCEPT !.e = r, !.path = NoPath,
                           !.st = "twoPath.getTarget"])
     /\ UNCHANGED <<entity, content, lock, now, pruner, ncmd, nprune, twin>>

\* const t = await getEntityByPath(db, cwd, newParentPath)
TwoPathResolveTarget(a) ==
  LET p == proc[a]
      n == Normalize(p.arg, CwdPieces(a))
      r == EntityGet(entity, n)
  IN /\ p.st = "twoPath.getTarget"
     /\ IF n = NoPath \/ r = NoEntity
        THEN SetProc(a, Fail(p, "NotFound"))
        ELSE SetProc(a, [p EXCEPT !.parent = r, !.arg = NoPath,
                           !.st = "twoPath.lockPath"])
     /\ UNCHANGED <<entity, content, lock, now, pruner, ncmd, nprune, twin>>

\* the loop that pushes e.path[i] while e.path[i] = t.path[i], joined
Gcp(s, t) ==
  LET m == IF Len(s) < Len(t) THEN Len(s) ELSE Len(t)
      k == CHOOSE j \in 0..m :
             /\ \A i \in 1..j : s[i] = t[i]
             /\ j = m \/ s[j + 1] # t[j + 1]
  IN SubSeq(s, 1, k)

\* newLockId = await lockPath(db, cwd, gcp, durationMs)
TwoPathLockPath(a) ==
  LET p == proc[a]
      n == Normalize(Gcp(p.e.path, p.parent.path), CwdPieces(a))
  IN /\ p.st = "twoPath.lockPath"
     /\ IF n = NoPath \/ LockHas(lock, n)
        THEN /\ SetProc(a, Fail(p, "Contended"))
             /\ UNCHANGED lock
        ELSE /\ lock' = lock \cup {[pathPrefix |-> n, expiry |-> now + p.dur,
                                    createdAt |-> now, owner |-> a]}
             /\ SetProc(a, [p EXCEPT !.lockId = n, !.refs = <<n>>, !.dur = 0,
                              !.st = "rejectIfConflicting.getEntity"])
     /\ UNCHANGED <<entity, content, now, pruner, ncmd, nprune, twin>>

NextTwoPath ==
  \/ TwoPathEvent(Caller)
  \/ TwoPathResolveSource(Caller)
  \/ TwoPathResolveTarget(Caller)
  \/ TwoPathLockPath(Caller)
  \/ RejectGetEntities(Caller)
  \/ RejectReadLocks(Caller)
  \/ TransplantAncestors(Caller)
  \/ RemoveLock(Caller)
  \/ Reply(Caller)
  \/ Tick

\* one host that sends two-path commands while another actor holds rows
SpecTwoPath == InitTwoPath /\ [][NextTwoPath]_vars

\* the source or the destination path of the running two-path command of
\* actor a carries an unexpired row of another actor
OtherHoldsEndpoint(a) ==
  \E l \in UnexpiredLocks(lock, now) :
    /\ l.owner # a
    /\ l.pathPrefix \in {proc[a].e.path, proc[a].parent.path}

\* C38: the row a two-path command adds to the lock store is on the greatest
\* common string prefix of the two resolved paths, and its overlap check
\* fails with Conflict when another actor holds an unexpired row on the
\* source or on the destination path
C38_CommonPrefixLockConflicts ==
  [][\A a \in Actors :
       LET p == proc[a]
       IN /\ (p.st = "twoPath.lockPath" /\ lock' # lock) =>
               \E l \in lock' \ lock :
                 /\ StartsWith(p.e.path, l.pathPrefix)
                 /\ StartsWith(p.parent.path, l.pathPrefix)
                 /\ \A g \in {SubSeq(p.e.path, 1, j) : j \in 0..Len(p.e.path)} :
                      StartsWith(p.parent.path, g) => Len(g) <= Len(l.pathPrefix)
          /\ (/\ p.st = "rejectIfConflicting.getAll"
              /\ p.cmd \in {"reparentFileByPath", "transplantAncestorsByPath"}
              /\ proc'[a].st # p.st
              /\ OtherHoldsEndpoint(a))
             => proc'[a].err = "Conflict"]_vars

\* C37: a transplantAncestors(old, new) of a directory old that has leaves
\* under it, to a directory new outside old, resolves with the content row of
\* every such leaf keyed by its new path, the body unchanged, and with no
\* content row keyed by a path under old
C37_TransplantMovesContent ==
  [][\A a \in Actors :
       LET p == proc[a]
           old == p.arg
           new == p.parent.path
           moved(n) == new \o SubSeq(n, Len(old) + 1, Len(n))
           leaves == {r \in StrictlyUnder(entity, old) : r.isLeaf}
       IN (/\ p.st = "transplantAncestors"
           /\ proc'[a].st # p.st
           /\ ~p.parent.isLeaf
           /\ ~StartsWith(new, old)
           /\ leaves # {})
          => (/\ proc'[a].out = "res"
              /\ \A r \in leaves :
                   /\ ContentHas(content', moved(r.path))
                   /\ ContentGet(content', moved(r.path)) = ContentGet(content, r.path)
              /\ \A c \in content' :
                   ~(StartsWith(c.leafPath, old) /\ c.leafPath # old))]_vars

\* ------------------------------------------------------------ mounting again
\* twin holds the stores of the database that is not open: at first a
\* database that does not exist yet
InitRemount ==
  /\ entity = SeedEntity
  /\ content = SeedContent
  /\ lock = {}
  /\ now = 0
  /\ proc = [a \in Actors |-> IdleProc]
  /\ pruner = [a \in Actors |-> IdlePruner]
  /\ ncmd = 0
  /\ nprune = 0
  /\ twin = [mounted |-> FsName, name |-> "fs2",
             entity |-> {}, content |-> {}, lock |-> {}]

\* uninitialized.idle on init: fsName := evt.filesystemName.  With the name
\* of the database that was open before, the stores are the ones the actor
\* worked on; with the other name, from now on the stores of the other
\* database are
InitNamedEvent(a) ==
  /\ proc[a].st = "uninitialized.idle"
  /\ \/ /\ SetProc(a, [proc[a] EXCEPT !.st = "uninitialized.initializing",
                                      !.fsName = twin.mounted])
        /\ UNCHANGED <<entity, content, lock, twin>>
     \/ /\ SetProc(a, [proc[a] EXCEPT !.st = "uninitialized.initializing",
                                      !.fsName = twin.name])
        /\ entity' = twin.entity
        /\ content' = twin.content
        /\ lock' = twin.lock
        /\ twin' = [mounted |-> twin.name, name |-> twin.mounted,
                    entity |-> entity, content |-> content, lock |-> lock]
  /\ UNCHANGED <<now, pruner, ncmd, nprune>>

NextRemount ==
  \/ ChangeDirectoryStep(Caller)
  \/ Close(Caller)
  \/ InitNamedEvent(Caller)
  \/ OpenDatabase(Caller)
  \/ Seeding(Caller)
  \/ Tick

\* one actor that changes directory, closes and mounts a filesystem again
SpecRemount == InitRemount /\ [][NextRemount]_vars

====
